---- MODULE Spec2Model ----
(***************************************************************************)
(* A model of tidwall/geoindex: the internal R-tree (the copy of           *)
(* tidwall/rtree v1.2.5 used to test the index), the Index.Nearby kNN      *)
(* traversal with its binary-heap queue, and the bundled box distance.     *)
(*                                                                         *)
(* Coordinates are float64 in the source.  The model uses small integers,  *)
(* on which float64 subtraction, multiplication and comparison are exact.  *)
(* Arrays keep the source's 0-based indexes: a point is a function on      *)
(* 0..1 and a node's rects array is a function on 0..maxEntries.           *)
(* Pointers to nodes are modelled by the node's value: the tree never      *)
(* shares a node between two parents.                                      *)
(***************************************************************************)
EXTENDS Integers, Sequences, FiniteSets, Bags, TLC

VARIABLES tr, plan, next, ops, live, out, queue

vars == <<tr, plan, next, ops, live, out, queue>>

maxEntries == 32
minEntries == (maxEntries * 20) \div 100

(***************************************************************************)
(* Bounds of the explored workload.                                        *)
(***************************************************************************)
MaxItems == 34      \* the largest data set the caller loads
MaxOps   == 1       \* mutations the caller performs after loading
MaxStop  == 2       \* a visitor answers false from its k-th call on, k <= MaxStop

(***************************************************************************)
(* Values.                                                                 *)
(***************************************************************************)
Pt(x, y) == (0 :> x) @@ (1 :> y)

Nil == [tag |-> "nil"]

Item(id) == [tag |-> "item", id |-> id]

Rect(x1, y1, x2, y2, d) == [min |-> Pt(x1, y1), max |-> Pt(x2, y2), data |-> d]

ZeroRect == Rect(0, 0, 0, 0, Nil)

NewNode == [tag |-> "node", count |-> 0, rects |-> [i \in 0..maxEntries |-> ZeroRect]]

IsNode(d) == d.tag = "node"

EmptyTree == [height |-> 0, root |-> ZeroRect, count |-> 0, reinsert |-> <<>>]

(***************************************************************************)
(* Box primitives.                                                         *)
(***************************************************************************)
expand(r, b) ==
    [r EXCEPT !.min = Pt(IF b.min[0] < r.min[0] THEN b.min[0] ELSE r.min[0],
                         IF b.min[1] < r.min[1] THEN b.min[1] ELSE r.min[1]),
              !.max = Pt(IF b.max[0] > r.max[0] THEN b.max[0] ELSE r.max[0],
                         IF b.max[1] > r.max[1] THEN b.max[1] ELSE r.max[1])]

area(r) == (r.max[0] - r.min[0]) * (r.max[1] - r.min[1])

enlargedAxis(r, b, a) ==
    IF b.max[a] > r.max[a]
    THEN IF b.min[a] < r.min[a] THEN b.max[a] - b.min[a] ELSE b.max[a] - r.min[a]
    ELSE IF b.min[a] < r.min[a] THEN r.max[a] - b.min[a] ELSE r.max[a] - r.min[a]

enlargedArea(r, b) == 1 * enlargedAxis(r, b, 0) * enlargedAxis(r, b, 1)

contains(r, b) ==
    IF b.min[0] < r.min[0] \/ b.max[0] > r.max[0] THEN FALSE
    ELSE IF b.min[1] < r.min[1] \/ b.max[1] > r.max[1] THEN FALSE
    ELSE TRUE

\* variant: boxes that only touch do not count as intersecting
intersectsStrict(r, b) ==
    IF b.min[0] >= r.max[0] \/ b.max[0] <= r.min[0] THEN FALSE
    ELSE IF b.min[1] >= r.max[1] \/ b.max[1] <= r.min[1] THEN FALSE
    ELSE TRUE

intersects(r, b) ==
    IF b.min[0] > r.max[0] \/ b.max[0] < r.min[0] THEN FALSE
    ELSE IF b.min[1] > r.max[1] \/ b.max[1] < r.min[1] THEN FALSE
    ELSE TRUE

\* variant: no entry is taken to be on the edge
onEdgeNever(r, b) == FALSE

onEdge(r, b) ==
    IF r.min[0] = b.min[0] \/ r.max[0] = b.max[0] THEN TRUE
    ELSE IF r.min[1] = b.min[1] \/ r.max[1] = b.max[1] THEN TRUE
    ELSE FALSE

largestAxis(r) ==
    IF r.max[1] - r.min[1] > r.max[0] - r.min[0] THEN 1 ELSE 0

fit(min, max, value, target) == [target EXCEPT !.min = min, !.max = max, !.data = value]

RECURSIVE recalcLoop(_, _, _)
recalcLoop(r, n, i) ==
    IF i < n.count THEN recalcLoop(expand(r, n.rects[i]), n, i + 1) ELSE r

\* variant: the box is not reset to the first entry before it is expanded
recalcKeepsBox(r) == recalcLoop(r, r.data, 0)

recalc(r) ==
    LET n == r.data
    IN  recalcLoop([r EXCEPT !.min = n.rects[0].min, !.max = n.rects[0].max], n, 1)

(***************************************************************************)
(* Insert.                                                                 *)
(***************************************************************************)
RECURSIVE cleLoop(_, _, _, _, _, _)
\* variant: equal enlargements are not told apart by the area
cleLoopNoAreaTie(n, b, i, j, jenlargement, jarea) ==
    IF i < n.count
    THEN LET earea       == enlargedArea(n.rects[i], b)
             ar          == area(n.rects[i])
             enlargement == earea - ar
         IN  IF j = -1 \/ enlargement < jenlargement
             THEN cleLoop(n, b, i + 1, i, enlargement, ar)
             ELSE cleLoop(n, b, i + 1, j, jenlargement, jarea)
    ELSE j

cleLoop(n, b, i, j, jenlargement, jarea) ==
    IF i < n.count
    THEN LET earea       == enlargedArea(n.rects[i], b)
             ar          == area(n.rects[i])
             enlargement == earea - ar
         IN  IF j = -1 \/ enlargement < jenlargement
                \/ (enlargement = jenlargement /\ ar < jarea)
             THEN cleLoop(n, b, i + 1, i, enlargement, ar)
             ELSE cleLoop(n, b, i + 1, j, jenlargement, jarea)
    ELSE j

chooseLeastEnlargement(r, b) == cleLoop(r.data, b, 0, -1, 0, 0)

\* the first loop of splitLargestAxisEdgeSnap; s = [left, right, equals] nodes
RECURSIVE splitLoop(_, _, _, _)
\* variant: an entry moved to the right node also stays in the left node
splitLoopKeepsMoved(left, axis, s, i) ==
    IF i < s.leftNode.count
    THEN LET e       == s.leftNode.rects[i]
             minDist == e.min[axis] - left.min[axis]
             maxDist == left.max[axis] - e.max[axis]
             last    == s.leftNode.count - 1
             moved   == [s.leftNode EXCEPT !.rects[i] = s.leftNode.rects[last]]
             shrunk  == [moved EXCEPT !.rects[last].data = Nil, !.count = last]
         IN  IF minDist < maxDist
             THEN splitLoop(left, axis, s, i + 1)
             ELSE IF minDist > maxDist
                  THEN splitLoop(left, axis,
                         [s EXCEPT !.rightNode.rects[s.rightNode.count] = e,
                                   !.rightNode.count = @ + 1], i + 1)
                  ELSE splitLoop(left, axis,
                         [s EXCEPT !.leftNode = shrunk,
                                   !.equals = Append(@, e)], i)
    ELSE s

splitLoop(left, axis, s, i) ==
    IF i < s.leftNode.count
    THEN LET e       == s.leftNode.rects[i]
             minDist == e.min[axis] - left.min[axis]
             maxDist == left.max[axis] - e.max[axis]
             last    == s.leftNode.count - 1
             moved   == [s.leftNode EXCEPT !.rects[i] = s.leftNode.rects[last]]
             shrunk  == [moved EXCEPT !.rects[last].data = Nil, !.count = last]
         IN  IF minDist < maxDist
             THEN splitLoop(left, axis, s, i + 1)
             ELSE IF minDist > maxDist
                  THEN splitLoop(left, axis,
                         [s EXCEPT !.leftNode = shrunk,
                                   !.rightNode.rects[s.rightNode.count] = e,
                                   !.rightNode.count = @ + 1], i)
                  ELSE splitLoop(left, axis,
                         [s EXCEPT !.leftNode = shrunk,
                                   !.equals = Append(@, e)], i)
    ELSE s

\* the second loop of splitLargestAxisEdgeSnap: hand out the ties
RECURSIVE equalsLoop(_, _)
\* variant: a tie goes to the left node when the counts are equal
equalsLoopLeftOnEqual(s, k) ==
    IF k <= Len(s.equals)
    THEN LET b == s.equals[k]
         IN  IF s.leftNode.count <= s.rightNode.count
             THEN equalsLoop([s EXCEPT !.leftNode.rects[s.leftNode.count] = b,
                                       !.leftNode.count = @ + 1], k + 1)
             ELSE equalsLoop([s EXCEPT !.rightNode.rects[s.rightNode.count] = b,
                                       !.rightNode.count = @ + 1], k + 1)
    ELSE s

\* variant: every tie goes to the right node
equalsLoopAllRight(s, k) ==
    IF k <= Len(s.equals)
    THEN equalsLoop([s EXCEPT !.rightNode.rects[s.rightNode.count] = s.equals[k],
                              !.rightNode.count = @ + 1], k + 1)
    ELSE s

equalsLoop(s, k) ==
    IF k <= Len(s.equals)
    THEN LET b == s.equals[k]
         IN  IF s.leftNode.count < s.rightNode.count
             THEN equalsLoop([s EXCEPT !.leftNode.rects[s.leftNode.count] = b,
                                       !.leftNode.count = @ + 1], k + 1)
             ELSE equalsLoop([s EXCEPT !.rightNode.rects[s.rightNode.count] = b,
                                       !.rightNode.count = @ + 1], k + 1)
    ELSE s

\* variant: the box of the right node is not computed
splitNoRecalcRight(r, right) ==
    LET axis == largestAxis(r)
        s0   == [leftNode |-> r.data, rightNode |-> NewNode, equals |-> <<>>]
        s1   == splitLoop(r, axis, s0, 0)
        s2   == equalsLoop(s1, 1)
    IN  [left  |-> recalc([r EXCEPT !.data = s2.leftNode]),
         right |-> [right EXCEPT !.data = s2.rightNode]]

\* returns the two rects [left, right]; right is the slot the caller hands in
splitLargestAxisEdgeSnap(r, right) ==
    LET axis == largestAxis(r)
        s0   == [leftNode |-> r.data, rightNode |-> NewNode, equals |-> <<>>]
        s1   == splitLoop(r, axis, s0, 0)
        s2   == equalsLoop(s1, 1)
    IN  [left  |-> recalc([r EXCEPT !.data = s2.leftNode]),
         right |-> recalc([right EXCEPT !.data = s2.rightNode])]

\* the "quick look" of rect.insert for a child that contains the item
RECURSIVE containLoop(_, _, _, _, _)
containLoop(n, item, i, index, narea) ==
    IF i < n.count
    THEN IF contains(n.rects[i], item)
         THEN LET ar == area(n.rects[i])
              IN  IF index = -1 \/ ar < narea
                  THEN containLoop(n, item, i + 1, i, ar)
                  ELSE containLoop(n, item, i + 1, index, narea)
         ELSE containLoop(n, item, i + 1, index, narea)
    ELSE index

chooseSubtree(r, item) ==
    LET index == containLoop(r.data, item, 0, -1, 0)
    IN  IF index = -1 THEN chooseLeastEnlargement(r, item) ELSE index

\* rect.insert: returns [r, grown]
RECURSIVE rectInsert(_, _, _)
rectInsert(r, item, height) ==
    LET n == r.data
    IN  IF height = 0
        THEN [r     |-> [r EXCEPT !.data.rects[n.count] = item,
                                  !.data.count = n.count + 1],
              grown |-> ~contains(r, item)]
        ELSE LET index  == chooseSubtree(r, item)
                 sub    == rectInsert(n.rects[index], item, height - 1)
                 child  == IF sub.grown THEN expand(sub.r, item) ELSE sub.r
                 grown  == IF sub.grown THEN ~contains(r, item) ELSE FALSE
             IN  IF child.data.count = maxEntries + 1
                 THEN LET sp == splitLargestAxisEdgeSnap(child, n.rects[n.count])
                      IN  [r     |-> [r EXCEPT !.data.rects[index] = sp.left,
                                               !.data.rects[n.count] = sp.right,
                                               !.data.count = n.count + 1],
                           grown |-> grown]
                 ELSE [r     |-> [r EXCEPT !.data.rects[index] = child],
                       grown |-> grown]

\* variant: the root is split beneath a new root and the height is kept
insertKeepsHeight(t, item) ==
    LET root0 == IF t.root.data = Nil
                 THEN fit(item.min, item.max, NewNode, t.root)
                 ELSE t.root
        res   == rectInsert(root0, item, t.height)
        root1 == IF res.grown THEN expand(res.r, item) ELSE res.r
    IN  IF root1.data.count = maxEntries + 1
        THEN LET sp      == splitLargestAxisEdgeSnap(root1, NewNode.rects[1])
                 newRoot == [NewNode EXCEPT !.rects[1] = sp.right,
                                            !.rects[0] = sp.left,
                                            !.count = 2]
             IN  [t EXCEPT !.root = recalc([sp.left EXCEPT !.data = newRoot]),
                           !.count = t.count + 1]
        ELSE [t EXCEPT !.root = root1, !.count = t.count + 1]

\* RTree.insert
insert(t, item) ==
    LET root0 == IF t.root.data = Nil
                 THEN fit(item.min, item.max, NewNode, t.root)
                 ELSE t.root
        res   == rectInsert(root0, item, t.height)
        root1 == IF res.grown THEN expand(res.r, item) ELSE res.r
    IN  IF root1.data.count = maxEntries + 1
        THEN LET sp      == splitLargestAxisEdgeSnap(root1, NewNode.rects[1])
                 newRoot == [NewNode EXCEPT !.rects[1] = sp.right,
                                            !.rects[0] = sp.left,
                                            !.count = 2]
             IN  [t EXCEPT !.root = recalc([sp.left EXCEPT !.data = newRoot]),
                           !.height = t.height + 1,
                           !.count = t.count + 1]
        ELSE [t EXCEPT !.root = root1, !.count = t.count + 1]

\* RTree.Insert
Insert(t, min, max, value) == insert(t, fit(min, max, value, ZeroRect))

(***************************************************************************)
(* Delete.                                                                 *)
(***************************************************************************)
\* flatten all leaf rects into a single list
RECURSIVE flatten(_, _, _)
RECURSIVE flattenLoop(_, _, _, _)
flattenLoop(n, all, height, i) ==
    IF i < n.count
    THEN flattenLoop(n, flatten(n.rects[i], all, height - 1), height, i + 1)
    ELSE all

flatten(r, all, height) ==
    LET n == r.data
    IN  IF height = 0
        THEN all \o [k \in 1..n.count |-> n.rects[k - 1]]
        ELSE flattenLoop(n, all, height, 0)

\* rects[i] = rects[len(rects)-1]; rects[len(rects)-1].data = nil; n.count--
removeAt(r, i) ==
    LET last == r.data.count - 1
        r1   == [r EXCEPT !.data.rects[i] = r.data.rects[last]]
    IN  [r1 EXCEPT !.data.rects[last].data = Nil, !.data.count = last]

\* rect.delete: returns [r, reinsert, removed, recalced]
RECURSIVE rectDelete(_, _, _, _)
RECURSIVE deleteLeafLoop(_, _, _, _, _)
RECURSIVE deleteNodeLoop(_, _, _, _, _, _)

\* variant: the leaf entry is matched by its box instead of its data
deleteLeafLoopByBox(r, reinsert, item, len, i) ==
    IF i < len
    THEN IF contains(r.data.rects[i], item)
         THEN LET recalced == onEdge(r, r.data.rects[i])
                  r1       == removeAt(r, i)
              IN  [r        |-> IF recalced THEN recalc(r1) ELSE r1,
                   reinsert |-> reinsert,
                   removed  |-> TRUE,
                   recalced |-> recalced]
         ELSE deleteLeafLoop(r, reinsert, item, len, i + 1)
    ELSE [r |-> r, reinsert |-> reinsert, removed |-> FALSE, recalced |-> FALSE]

deleteLeafLoop(r, reinsert, item, len, i) ==
    IF i < len
    THEN IF r.data.rects[i].data = item.data
         THEN LET recalced == onEdge(r, r.data.rects[i])
                  r1       == removeAt(r, i)
              IN  [r        |-> IF recalced THEN recalc(r1) ELSE r1,
                   reinsert |-> reinsert,
                   removed  |-> TRUE,
                   recalced |-> recalced]
         ELSE deleteLeafLoop(r, reinsert, item, len, i + 1)
    ELSE [r |-> r, reinsert |-> reinsert, removed |-> FALSE, recalced |-> FALSE]

\* variant: a child that falls below minEntries is left in place
deleteNodeLoopKeepsUnderflow(r, reinsert, item, height, len, i) ==
    IF i < len
    THEN IF ~contains(r.data.rects[i], item)
         THEN deleteNodeLoop(r, reinsert, item, height, len, i + 1)
         ELSE LET sub == rectDelete(r.data.rects[i], reinsert, item, height - 1)
                  r1  == [r EXCEPT !.data.rects[i] = sub.r]
              IN  IF ~sub.removed
                  THEN deleteNodeLoop(r1, sub.reinsert, item, height, len, i + 1)
                  ELSE [r        |-> IF sub.recalced THEN recalc(r1) ELSE r1,
                        reinsert |-> sub.reinsert,
                        removed  |-> sub.removed,
                        recalced |-> sub.recalced]
    ELSE [r |-> r, reinsert |-> reinsert, removed |-> FALSE, recalced |-> FALSE]

deleteNodeLoop(r, reinsert, item, height, len, i) ==
    IF i < len
    THEN IF ~contains(r.data.rects[i], item)
         THEN deleteNodeLoop(r, reinsert, item, height, len, i + 1)
         ELSE LET sub == rectDelete(r.data.rects[i], reinsert, item, height - 1)
                  r1  == [r EXCEPT !.data.rects[i] = sub.r]
              IN  IF ~sub.removed
                  THEN deleteNodeLoop(r1, sub.reinsert, item, height, len, i + 1)
                  ELSE IF sub.r.data.count < minEntries
                       THEN LET recalced == IF ~sub.recalced
                                            THEN onEdge(r1, sub.r)
                                            ELSE sub.recalced
                                r2       == removeAt(r1, i)
                            IN  [r        |-> IF recalced THEN recalc(r2) ELSE r2,
                                 reinsert |-> flatten(sub.r, sub.reinsert, height - 1),
                                 removed  |-> sub.removed,
                                 recalced |-> recalced]
                       ELSE [r        |-> IF sub.recalced THEN recalc(r1) ELSE r1,
                             reinsert |-> sub.reinsert,
                             removed  |-> sub.removed,
                             recalced |-> sub.recalced]
    ELSE [r |-> r, reinsert |-> reinsert, removed |-> FALSE, recalced |-> FALSE]

rectDelete(r, reinsert, item, height) ==
    IF height = 0
    THEN deleteLeafLoop(r, reinsert, item, r.data.count, 0)
    ELSE deleteNodeLoop(r, reinsert, item, height, r.data.count, 0)

\* for tr.height > 0 && tr.root.data.(*node).count == 1 { ... }
RECURSIVE collapse(_)
\* variant: a root with a single child is left as it is
collapseNever(t) == t

\* variant: the height is lowered and the root is kept
collapseKeepsRoot(t) ==
    IF t.height > 0 /\ t.root.data.count = 1
    THEN [t EXCEPT !.height = t.height - 1]
    ELSE t

collapse(t) ==
    IF t.height > 0 /\ t.root.data.count = 1
    THEN collapse([t EXCEPT !.root = recalc(t.root.data.rects[0]),
                            !.height = t.height - 1])
    ELSE t

\* for i := range tr.reinsert { tr.insert(&tr.reinsert[i]); tr.reinsert[i].data = nil }
RECURSIVE reinsertLoop(_, _)
\* variant: the last item of the list is not reinserted
reinsertLoopSkipsLast(t, i) ==
    IF i < Len(t.reinsert)
    THEN reinsertLoop(insert(t, t.reinsert[i]), i + 1)
    ELSE [t EXCEPT !.reinsert = <<>>]

reinsertLoop(t, i) ==
    IF i <= Len(t.reinsert)
    THEN reinsertLoop(insert(t, t.reinsert[i]), i + 1)
    ELSE [t EXCEPT !.reinsert = <<>>]

\* RTree.Delete from the return of rect.delete on: d = [r, reinsert, removed,
\* recalced] is what tr.root.delete(&tr.reinsert, &item, tr.height) left
DeleteRemoved(t, d) ==
    LET t1 == [t EXCEPT !.root = d.r, !.reinsert = d.reinsert]
        t2 == [t1 EXCEPT !.count = t1.count - (Len(t1.reinsert) + 1)]
        t3 == IF t2.count = 0
              THEN [t2 EXCEPT !.root = ZeroRect]
              ELSE collapse(t2)
        recalced == IF t2.count = 0 THEN FALSE ELSE d.recalced
        t4 == IF recalced
              THEN [t3 EXCEPT !.root = recalc(t3.root)]
              ELSE t3
    IN  IF ~d.removed
        THEN t1
        ELSE IF Len(t4.reinsert) > 0 THEN reinsertLoop(t4, 1) ELSE t4

\* RTree.Delete
Delete(t, min, max, data) ==
    LET item == fit(min, max, data, ZeroRect)
    IN  IF t.root.data = Nil \/ ~contains(t.root, item)
        THEN t
        ELSE DeleteRemoved(t, rectDelete(t.root, t.reinsert, item, t.height))

\* RTree.Replace
Replace(t, oldMin, oldMax, oldData, newMin, newMax, newData) ==
    Insert(Delete(t, oldMin, oldMax, oldData), newMin, newMax, newData)

\* RTree.Len
TreeLen(t) == t.count

\* RTree.Bounds
Bounds(t) ==
    IF t.root.data = Nil
    THEN [min |-> Pt(0, 0), max |-> Pt(0, 0)]
    ELSE [min |-> t.root.min, max |-> t.root.max]

(***************************************************************************)
(* Search, Scan and Children.  A visitor is modelled by the set of call    *)
(* numbers on which it answers false; every call is appended to a log.     *)
(***************************************************************************)
\* one call of the visitor: iter(min, max, data)
visit(stops, log, e) ==
    Append(log, [min |-> e.min, max |-> e.max, data |-> e.data,
                 ret |-> (Len(log) + 1) \notin stops])

Last(log) == log[Len(log)]

\* rect.search: returns [ret, log]
RECURSIVE rectSearch(_, _, _, _, _)
RECURSIVE searchLoop(_, _, _, _, _, _)
searchLoop(r, target, height, stops, log, i) ==
    IF i < r.data.count
    THEN IF intersects(target, r.data.rects[i])
         THEN IF height = 0
              THEN LET log1 == visit(stops, log, r.data.rects[i])
                   IN  IF ~Last(log1).ret
                       THEN [ret |-> FALSE, log |-> log1]
                       ELSE searchLoop(r, target, height, stops, log1, i + 1)
              ELSE LET sub == rectSearch(r.data.rects[i], target, height - 1, stops, log)
                   IN  IF ~sub.ret
                       THEN [ret |-> FALSE, log |-> sub.log]
                       ELSE searchLoop(r, target, height, stops, sub.log, i + 1)
         ELSE searchLoop(r, target, height, stops, log, i + 1)
    ELSE [ret |-> TRUE, log |-> log]

rectSearch(r, target, height, stops, log) == searchLoop(r, target, height, stops, log, 0)

\* RTree.search / RTree.Search: returns the visitor's log
Search(t, min, max, stops) ==
    LET target == fit(min, max, Nil, ZeroRect)
    IN  IF t.root.data = Nil
        THEN <<>>
        ELSE IF intersects(target, t.root)
             THEN rectSearch(t.root, target, t.height, stops, <<>>).log
             ELSE <<>>

\* rect.scan: returns [ret, log]
RECURSIVE rectScan(_, _, _, _)
RECURSIVE scanLoop(_, _, _, _, _)
\* variant: the result of the scan of a child node is dropped
scanLoopIgnoresChild(r, height, stops, log, i) ==
    IF i < r.data.count
    THEN IF height = 0
         THEN LET log1 == visit(stops, log, r.data.rects[i])
              IN  IF ~Last(log1).ret
                  THEN [ret |-> FALSE, log |-> log1]
                  ELSE scanLoop(r, height, stops, log1, i + 1)
         ELSE LET sub == rectScan(r.data.rects[i], height - 1, stops, log)
              IN  scanLoop(r, height, stops, sub.log, i + 1)
    ELSE [ret |-> TRUE, log |-> log]

scanLoop(r, height, stops, log, i) ==
    IF i < r.data.count
    THEN IF height = 0
         THEN LET log1 == visit(stops, log, r.data.rects[i])
              IN  IF ~Last(log1).ret
                  THEN [ret |-> FALSE, log |-> log1]
                  ELSE scanLoop(r, height, stops, log1, i + 1)
         ELSE LET sub == rectScan(r.data.rects[i], height - 1, stops, log)
              IN  IF ~sub.ret
                  THEN [ret |-> FALSE, log |-> sub.log]
                  ELSE scanLoop(r, height, stops, sub.log, i + 1)
    ELSE [ret |-> TRUE, log |-> log]

rectScan(r, height, stops, log) == scanLoop(r, height, stops, log, 0)

\* RTree.Scan: returns the visitor's log
Scan(t, stops) ==
    IF t.root.data = Nil THEN <<>> ELSE rectScan(t.root, t.height, stops, <<>>).log

Child(min, max, data, item) == [Min |-> min, Max |-> max, Data |-> data, Item |-> item]

\* variant: the loop over the node's entries starts at 1
ChildrenSkipFirst(t, parent, reuse) ==
    IF parent = Nil
    THEN IF TreeLen(t) > 0
         THEN Append(reuse, Child(t.root.min, t.root.max, t.root.data, FALSE))
         ELSE reuse
    ELSE LET n    == parent
             item == IF n.count > 0
                     THEN IF IsNode(n.rects[0].data) THEN FALSE ELSE TRUE
                     ELSE TRUE
         IN  reuse \o [k \in 1..(n.count - 1) |->
                         Child(n.rects[k].min, n.rects[k].max, n.rects[k].data, item)]

\* variant: Len() is not looked at; an empty tree hands out its zero root
\* rect as one entry
ChildrenNoLenCheck(t, parent, reuse) ==
    IF parent = Nil
    THEN IF IsNode(t.root.data)
         THEN Append(reuse, Child(t.root.min, t.root.max, t.root.data, FALSE))
         ELSE Append(reuse, Child(t.root.min, t.root.max, Item(0), TRUE))
    ELSE LET n    == parent
             item == IF n.count > 0
                     THEN IF IsNode(n.rects[0].data) THEN FALSE ELSE TRUE
                     ELSE TRUE
         IN  reuse \o [k \in 1..n.count |->
                         Child(n.rects[k - 1].min, n.rects[k - 1].max,
                               n.rects[k - 1].data, item)]

\* variant: the box of the root entry is left at its zero value
ChildrenRootNoBox(t, parent, reuse) ==
    IF parent = Nil
    THEN IF TreeLen(t) > 0
         THEN Append(reuse, Child(Pt(0, 0), Pt(0, 0), t.root.data, FALSE))
         ELSE reuse
    ELSE LET n    == parent
             item == IF n.count > 0
                     THEN IF IsNode(n.rects[0].data) THEN FALSE ELSE TRUE
                     ELSE TRUE
         IN  reuse \o [k \in 1..n.count |->
                         Child(n.rects[k - 1].min, n.rects[k - 1].max,
                               n.rects[k - 1].data, item)]

\* variant: the Item flag is taken from the last entry's slot in the array
ChildrenFlagFromLastSlot(t, parent, reuse) ==
    IF parent = Nil
    THEN IF TreeLen(t) > 0
         THEN Append(reuse, Child(t.root.min, t.root.max, t.root.data, FALSE))
         ELSE reuse
    ELSE LET n    == parent
             item == IF n.count > 0
                     THEN IF IsNode(n.rects[maxEntries].data) THEN FALSE ELSE TRUE
                     ELSE TRUE
         IN  reuse \o [k \in 1..n.count |->
                         Child(n.rects[k - 1].min, n.rects[k - 1].max,
                               n.rects[k - 1].data, item)]

\* variant: the buffer is truncated before it is filled
ChildrenTruncatesReuse(t, parent, reuse) ==
    IF parent = Nil
    THEN IF TreeLen(t) > 0
         THEN <<Child(t.root.min, t.root.max, t.root.data, FALSE)>>
         ELSE <<>>
    ELSE LET n    == parent
             item == IF n.count > 0
                     THEN IF IsNode(n.rects[0].data) THEN FALSE ELSE TRUE
                     ELSE TRUE
         IN  [k \in 1..n.count |->
                 Child(n.rects[k - 1].min, n.rects[k - 1].max,
                       n.rects[k - 1].data, item)]

\* RTree.Children: parent is Nil or a node
Children(t, parent, reuse) ==
    IF parent = Nil
    THEN IF TreeLen(t) > 0
         THEN Append(reuse, Child(t.root.min, t.root.max, t.root.data, FALSE))
         ELSE reuse
    ELSE LET n    == parent
             item == IF n.count > 0
                     THEN IF IsNode(n.rects[0].data) THEN FALSE ELSE TRUE
                     ELSE TRUE
         IN  reuse \o [k \in 1..n.count |->
                         Child(n.rects[k - 1].min, n.rects[k - 1].max,
                               n.rects[k - 1].data, item)]

(***************************************************************************)
(* The bundled box distance (algo/simplebox.go).                           *)
(***************************************************************************)
\* variant: the far side of the second box is taken from its min corner
boxDistAxisToMin(amin, amax, bmin, bmax, a) ==
    LET min     == IF amin[a] > bmin[a] THEN amin[a] ELSE bmin[a]
        max     == IF amax[a] < bmin[a] THEN amax[a] ELSE bmin[a]
        squared == min - max
    IN  IF squared > 0 THEN squared * squared ELSE 0

\* variant: the gap is squared whether or not it is positive
boxDistAxisAlwaysSquares(amin, amax, bmin, bmax, a) ==
    LET min     == IF amin[a] > bmin[a] THEN amin[a] ELSE bmin[a]
        max     == IF amax[a] < bmax[a] THEN amax[a] ELSE bmax[a]
        squared == min - max
    IN  squared * squared

boxDistAxis(amin, amax, bmin, bmax, a) ==
    LET min     == IF amin[a] > bmin[a] THEN amin[a] ELSE bmin[a]
        max     == IF amax[a] < bmax[a] THEN amax[a] ELSE bmax[a]
        squared == min - max
    IN  IF squared > 0 THEN squared * squared ELSE 0

boxDist(amin, amax, bmin, bmax) ==
    0 + boxDistAxis(amin, amax, bmin, bmax, 0) + boxDistAxis(amin, amax, bmin, bmax, 1)

\* the reference of the conformance test: for i := 0; i < len(amin); i++
RECURSIVE testBoxDistLoop(_, _, _, _, _, _)
testBoxDistLoop(amin, amax, bmin, bmax, i, dist) ==
    IF i < 2
    THEN LET min     == IF amin[i] > bmin[i] THEN amin[i] ELSE bmin[i]
             max     == IF amax[i] < bmax[i] THEN amax[i] ELSE bmax[i]
             squared == min - max
         IN  testBoxDistLoop(amin, amax, bmin, bmax, i + 1,
                             IF squared > 0 THEN dist + squared * squared ELSE dist)
    ELSE dist

testBoxDist(amin, amax, bmin, bmax) == testBoxDistLoop(amin, amax, bmin, bmax, 0, 0)

(***************************************************************************)
(* The priority queue of Index.Nearby: a sequence of qnodes; the source's  *)
(* index i is position i + 1.                                              *)
(***************************************************************************)
swap(nodes, i, j) == [nodes EXCEPT ![i + 1] = nodes[j + 1], ![j + 1] = nodes[i + 1]]

RECURSIVE siftUp(_, _)
siftUp(nodes, i) ==
    LET parent == (i - 1) \div 2
    IN  IF i # 0 /\ nodes[parent + 1].dist > nodes[i + 1].dist
        THEN siftUp(swap(nodes, parent, i), parent)
        ELSE nodes

\* variant: the new node is appended and not moved up
pushNoSiftUp(q, node) == Append(q, node)

\* queue.push
push(q, node) == siftUp(Append(q, node), Len(q))

RECURSIVE siftDown(_, _)
\* variant: only the left child is compared
siftDownLeftOnly(nodes, i) ==
    LET left     == i * 2 + 1
        smallest == IF left < Len(nodes) /\ nodes[left + 1].dist <= nodes[i + 1].dist
                    THEN left ELSE i
    IN  IF smallest = i THEN nodes ELSE siftDown(swap(nodes, smallest, i), smallest)

siftDown(nodes, i) ==
    LET left      == i * 2 + 1
        right     == i * 2 + 2
        smallest1 == IF left < Len(nodes) /\ nodes[left + 1].dist <= nodes[i + 1].dist
                     THEN left ELSE i
        smallest  == IF right < Len(nodes)
                        /\ nodes[right + 1].dist <= nodes[smallest1 + 1].dist
                     THEN right ELSE smallest1
    IN  IF smallest = i THEN nodes ELSE siftDown(swap(nodes, smallest, i), smallest)

\* variant: the last node is moved to the root and left there
popNoSiftDown(q) ==
    IF Len(q) = 0
    THEN [q |-> q, n |-> [dist |-> 0, child |-> Child(Pt(0, 0), Pt(0, 0), Nil, FALSE)],
          ok |-> FALSE]
    ELSE LET moved == [q EXCEPT ![1] = q[Len(q)]]
         IN  [q |-> SubSeq(moved, 1, Len(q) - 1), n |-> q[1], ok |-> TRUE]

\* queue.pop: returns [q, n, ok]
pop(q) ==
    IF Len(q) = 0
    THEN [q |-> q, n |-> [dist |-> 0, child |-> Child(Pt(0, 0), Pt(0, 0), Nil, FALSE)],
          ok |-> FALSE]
    ELSE LET n     == q[1]
             moved == [q EXCEPT ![1] = q[Len(q)]]
             nodes == SubSeq(moved, 1, Len(q) - 1)
         IN  [q |-> siftDown(nodes, 0), n |-> n, ok |-> TRUE]

\* The queue as a Go slice: its nodes and the capacity of its backing array.
\* var q queue
EmptyQueue == [nodes |-> <<>>, cap |-> 0]

\* variant: every append allocates a new backing array
appendCapAlwaysGrows(len, cap, newcap) == newcap

\* the capacity after *q = append(*q, node): the array is kept while it has
\* room, otherwise the runtime allocates one of capacity newcap > len
appendCap(len, cap, newcap) == IF len < cap THEN cap ELSE newcap

\* the capacity after nodes = nodes[:len(nodes)-1]; *q = nodes
resliceCap(len, cap) == cap

(***************************************************************************)
(* Index.Nearby.  The caller's algo is one of a few distance functions;    *)
(* the log records every call of Children, algo and iter in order.         *)
(***************************************************************************)
\* the caller's distance function algo(min, max, data, item)
ApplyAlgo(a, min, max, data, item) ==
    CASE a.kind = "box"    -> boxDist(a.t.min, a.t.max, min, max)
      [] a.kind = "negbox" -> 0 - boxDist(a.t.min, a.t.max, min, max)
      [] a.kind = "byid"   -> IF item THEN data.id % 3 ELSE 0

\* what a log keeps of a payload: a node handle is opaque
Digest(d) == IF IsNode(d) THEN [tag |-> "node", count |-> d.count] ELSE d

\* the log entry for a popped entry that is a node: the handle itself is
\* kept, it is the next argument of Children
Expand(n) == [ev |-> "expand", min |-> n.child.Min, max |-> n.child.Max,
              data |-> n.child.Data, dist |-> n.dist]

RECURSIVE pushLoop(_, _, _, _)
\* variant: the last child is neither measured nor pushed
pushLoopDropsLast(a, children, st, k) ==
    IF k < Len(children)
    THEN LET c    == children[k]
             dist == ApplyAlgo(a, c.Min, c.Max, c.Data, c.Item)
         IN  pushLoop(a, children,
                      [st EXCEPT !.q = push(@, [dist |-> dist, child |-> c]),
                                 !.log = Append(@, [ev |-> "algo", min |-> c.Min,
                                                    max |-> c.Max, data |-> Digest(c.Data),
                                                    item |-> c.Item, dist |-> dist])],
                      k + 1)
    ELSE st

pushLoop(a, children, st, k) ==
    IF k <= Len(children)
    THEN LET c    == children[k]
             dist == ApplyAlgo(a, c.Min, c.Max, c.Data, c.Item)
         IN  pushLoop(a, children,
                      [st EXCEPT !.q = push(@, [dist |-> dist, child |-> c]),
                                 !.log = Append(@, [ev |-> "algo", min |-> c.Min,
                                                    max |-> c.Max, data |-> Digest(c.Data),
                                                    item |-> c.Item, dist |-> dist])],
                      k + 1)
    ELSE st

\* st = [q, parent, log, iters]; returns the log of the whole call
RECURSIVE nearbyOuter(_, _, _, _)
RECURSIVE nearbyInner(_, _, _, _)
\* variant: the answer of iter is not looked at
nearbyInnerIgnoresIter(t, a, stops, st) ==
    LET p == pop(st.q)
    IN  IF ~p.ok
        THEN st.log
        ELSE IF p.n.child.Item
             THEN LET ret == (st.iters + 1) \notin stops
                      st1 == [st EXCEPT !.q = p.q,
                                        !.iters = @ + 1,
                                        !.log = Append(@, [ev |-> "iter",
                                                   min |-> p.n.child.Min,
                                                   max |-> p.n.child.Max,
                                                   data |-> Digest(p.n.child.Data),
                                                   dist |-> p.n.dist, ret |-> ret])]
                  IN  nearbyInner(t, a, stops, st1)
             ELSE nearbyOuter(t, a, stops,
                              [st EXCEPT !.q = p.q, !.parent = p.n.child.Data,
                                         !.log = Append(@, Expand(p.n))])

nearbyInner(t, a, stops, st) ==
    LET p == pop(st.q)
    IN  IF ~p.ok
        THEN st.log
        ELSE IF p.n.child.Item
             THEN LET ret == (st.iters + 1) \notin stops
                      st1 == [st EXCEPT !.q = p.q,
                                        !.iters = @ + 1,
                                        !.log = Append(@, [ev |-> "iter",
                                                   min |-> p.n.child.Min,
                                                   max |-> p.n.child.Max,
                                                   data |-> Digest(p.n.child.Data),
                                                   dist |-> p.n.dist, ret |-> ret])]
                  IN  IF ~ret THEN st1.log ELSE nearbyInner(t, a, stops, st1)
             ELSE nearbyOuter(t, a, stops,
                              [st EXCEPT !.q = p.q, !.parent = p.n.child.Data,
                                         !.log = Append(@, Expand(p.n))])

nearbyOuter(t, a, stops, st) ==
    LET children == Children(t, st.parent, <<>>)
        st1      == [st EXCEPT !.log = Append(@, [ev |-> "Children",
                                                  parent |-> Digest(st.parent),
                                                  n |-> Len(children)])]
    IN  nearbyInner(t, a, stops, pushLoop(a, children, st1, 1))

Nearby(t, a, stops) ==
    nearbyOuter(t, a, stops, [q |-> <<>>, parent |-> Nil, log |-> <<>>, iters |-> 0])

(***************************************************************************)
(* Index.Nearby one loop pass at a time.  The position is "gather" before  *)
(* the Children call of the outer loop, "pop" before a pop of the inner    *)
(* loop and "return" once Nearby has returned.                             *)
(***************************************************************************)
NearbyEntry == [q |-> <<>>, parent |-> Nil, log |-> <<>>, iters |-> 0]

\* the Children call of the outer loop and the push of every child
nearbyGather(t, a, st) ==
    LET children == Children(t, st.parent, <<>>)
        st1      == [st EXCEPT !.log = Append(@, [ev |-> "Children",
                                                  parent |-> Digest(st.parent),
                                                  n |-> Len(children)])]
    IN  pushLoop(a, children, st1, 1)

\* variant: a popped node stays in the heap and is not expanded
nearbyStepKeepsNode(stops, st) ==
    LET p == pop(st.q)
    IN  IF ~p.ok
        THEN [pc |-> "return", st |-> st]
        ELSE IF p.n.child.Item
             THEN LET ret == (st.iters + 1) \notin stops
                      st1 == [st EXCEPT !.q = p.q,
                                        !.iters = @ + 1,
                                        !.log = Append(@, [ev |-> "iter",
                                                   min |-> p.n.child.Min,
                                                   max |-> p.n.child.Max,
                                                   data |-> Digest(p.n.child.Data),
                                                   dist |-> p.n.dist, ret |-> ret])]
                  IN  [pc |-> IF ret THEN "pop" ELSE "return", st |-> st1]
             ELSE [pc |-> "pop", st |-> st]

\* one pass of the inner loop: returns the next position and the locals
nearbyStep(stops, st) ==
    LET p == pop(st.q)
    IN  IF ~p.ok
        THEN [pc |-> "return", st |-> st]
        ELSE IF p.n.child.Item
             THEN LET ret == (st.iters + 1) \notin stops
                      st1 == [st EXCEPT !.q = p.q,
                                        !.iters = @ + 1,
                                        !.log = Append(@, [ev |-> "iter",
                                                   min |-> p.n.child.Min,
                                                   max |-> p.n.child.Max,
                                                   data |-> Digest(p.n.child.Data),
                                                   dist |-> p.n.dist, ret |-> ret])]
                  IN  [pc |-> IF ret THEN "pop" ELSE "return", st |-> st1]
             ELSE [pc |-> "gather",
                   st |-> [st EXCEPT !.q = p.q, !.parent = p.n.child.Data,
                                     !.log = Append(@, Expand(p.n))]]

\* the next loop pass of the call o = [arg, stops, pc, st] on the tree t
nearbyPass(t, o) ==
    IF o.pc = "gather"
    THEN [o EXCEPT !.st = nearbyGather(t, o.arg, o.st), !.pc = "pop"]
    ELSE LET s == nearbyStep(o.stops, o.st)
         IN  [o EXCEPT !.st = s.st, !.pc = s.pc]

(***************************************************************************)
(* The caller.  As in testBoxesVarious, the caller owns a data set, loads  *)
(* its first n items in order (item i carries the payload Item(i)) and     *)
(* then deletes, inserts and replaces items.                               *)
(***************************************************************************)
DatasetNames == {"zero", "lop", "boxes", "line"}

\* the data set "line" makes a tree of height 2 with this many items
TwoLevels == 2 * maxEntries + 1

\* every data set up to the first split of the root and one item more, the
\* small trees and the tree of height 2
Plans ==
    [ds : DatasetNames, n : {maxEntries + 1, MaxItems}]
    \cup [ds : {"lop"}, n : {0, 1, 3}]
    \cup {[ds |-> "twin", n |-> 3]}
    \cup {[ds |-> "line", n |-> TwoLevels]}

AbsentId == MaxItems + 1

OpIds == {1, 2, 3, maxEntries + 1, MaxItems}

Box(x1, y1, x2, y2) == [min |-> Pt(x1, y1), max |-> Pt(x2, y2)]

DataBox(ds, id) ==
    CASE ds = "zero"  -> Box(0, 0, 0, 0)
      [] ds \in {"lop", "twin"}
                      -> IF id <= 3
                         THEN Box(0, id % 2, 0, id % 2)
                         ELSE Box(8 + (id % 3), id % 4, 8 + (id % 3), id % 4)
      [] ds = "boxes" -> Box(id % 5, (3 * id) % 7,
                             (id % 5) + (id % 3), ((3 * id) % 7) + (id % 2))
      [] ds = "line"  -> IF id <= maxEntries
                         THEN Box(0, 0, 0, 0)
                         ELSE Box(10 * (id - maxEntries), 0, 10 * (id - maxEntries), 0)

MovedBox(ds, id) ==
    LET b == DataBox(ds, id)
    IN  Box(b.min[0] + 1, b.min[1], b.max[0] + 2, b.max[1])

Pair(box, data) == [min |-> box.min, max |-> box.max, data |-> data]

\* the payload of item id: in the data set "twin" the items 2 and 3 carry
\* the same payload under different boxes
Payload(ds, id) == IF ds = "twin" /\ id = 3 THEN Item(2) ELSE Item(id)

DataItem(ds, id) == Pair(DataBox(ds, id), Payload(ds, id))

Loading == next <= plan.n

CanMutate == ~Loading /\ ops < MaxOps

InsertInputs ==
    IF Loading
    THEN {DataItem(plan.ds, next)}
    ELSE {DataItem(plan.ds, id) : id \in {1, AbsentId}}

\* each candidate under its own box, and item 1 under the box of item 2
DeleteInputs ==
    {DataItem(plan.ds, id) : id \in OpIds \cup {AbsentId}}
    \cup {Pair(DataBox(plan.ds, 2), Item(1))}

ReplaceInputs ==
    {[old |-> DataItem(plan.ds, id),
      new |-> Pair(MovedBox(plan.ds, id), Payload(plan.ds, id))] :
        id \in {1, maxEntries + 1, AbsentId}}
    \cup {[old |-> Pair(DataBox(plan.ds, 2), Item(1)),
           new |-> Pair(MovedBox(plan.ds, 1), Item(1))]}

\* the pairs inserted and not deleted, as a bag
LiveInsert(l, p) == l (+) SetToBag({p})

LiveDelete(l, p) == IF BagIn(p, l) THEN l (-) SetToBag({p}) ELSE l

Init ==
    /\ tr = EmptyTree
    /\ plan \in Plans
    /\ next = 1
    /\ ops = 0
    /\ live = EmptyBag
    /\ out = [op |-> "New"]
    /\ queue = EmptyQueue

InsertAct ==
    /\ Loading \/ CanMutate
    /\ \E inp \in InsertInputs :
         /\ tr' = Insert(tr, inp.min, inp.max, inp.data)
         /\ live' = LiveInsert(live, inp)
         /\ out' = [op |-> "Insert", arg |-> inp]
    /\ next' = IF Loading THEN next + 1 ELSE next
    /\ ops' = IF Loading THEN ops ELSE ops + 1
    /\ UNCHANGED <<plan, queue>>

DeleteAct ==
    /\ CanMutate
    /\ \E inp \in DeleteInputs :
         /\ tr' = Delete(tr, inp.min, inp.max, inp.data)
         /\ live' = LiveDelete(live, inp)
         /\ out' = [op |-> "Delete", arg |-> inp]
    /\ ops' = ops + 1
    /\ UNCHANGED <<plan, next, queue>>

ReplaceAct ==
    /\ CanMutate
    /\ \E inp \in ReplaceInputs :
         /\ tr' = Replace(tr, inp.old.min, inp.old.max, inp.old.data,
                              inp.new.min, inp.new.max, inp.new.data)
         /\ live' = LiveInsert(LiveDelete(live, inp.old), inp.new)
         /\ out' = [op |-> "Replace", arg |-> inp]
    /\ ops' = ops + 1
    /\ UNCHANGED <<plan, next, queue>>

\* the visitor always answers true, or answers false on calls k and k + 1
StopSets == {{}} \cup {{k, k + 1} : k \in 1..MaxStop}

\* A query reads the tree only and overwrites out, so a query issued right
\* after another query reaches no state that the first one could not reach:
\* queries are explored from the states a mutation (or the construction) left.
CanQuery == out.op \in {"New", "Insert", "Delete", "Replace"}

QueryBoxes == {Box(0, 0, 0, 0), Box(1, 1, 8, 2), Box(9, 3, 12, 6)}

Algos == {[kind |-> "box", t |-> b] : b \in QueryBoxes}
         \cup {[kind |-> "negbox", t |-> Box(0, 0, 0, 0)], [kind |-> "byid"]}

SearchAct ==
    /\ CanQuery
    /\ \E q \in QueryBoxes, stops \in StopSets :
         out' = [op |-> "Search", arg |-> q, stops |-> stops,
                 log |-> Search(tr, q.min, q.max, stops)]
    /\ UNCHANGED <<tr, plan, next, ops, live, queue>>

\* variant: Scan leaves the number of items it visited as the item count
ScanCountsAct ==
    /\ CanQuery
    /\ \E stops \in StopSets :
         /\ out' = [op |-> "Scan", stops |-> stops, log |-> Scan(tr, stops)]
         /\ tr' = [tr EXCEPT !.count = Len(Scan(tr, stops))]
    /\ UNCHANGED <<plan, next, ops, live, queue>>

ScanAct ==
    /\ CanQuery
    /\ \E stops \in StopSets :
         out' = [op |-> "Scan", stops |-> stops, log |-> Scan(tr, stops)]
    /\ UNCHANGED <<tr, plan, next, ops, live, queue>>

\* on the tree of height 2 the caller's iter stops the traversal: the
\* traversals that run to the end are those of the trees of height 0 and 1
NearbyStops == IF plan.n = TwoLevels THEN StopSets \ {{}} ELSE StopSets

NearbyAct ==
    /\ CanQuery
    /\ \E a \in Algos, stops \in NearbyStops :
         out' = [op |-> "Nearby", arg |-> a, stops |-> stops,
                 log |-> Nearby(tr, a, stops)]
    /\ UNCHANGED <<tr, plan, next, ops, live, queue>>

\* the node handles a caller can hold: the Data of the entries that Children
\* returned with Item = false, from Children(nil) down
RECURSIVE HandlesFrom(_, _, _)
HandlesFrom(t, cs, k) ==
    IF k > Len(cs)
    THEN {}
    ELSE (IF cs[k].Item
          THEN {}
          ELSE {cs[k].Data} \cup HandlesFrom(t, Children(t, cs[k].Data, <<>>), 1))
         \cup HandlesFrom(t, cs, k + 1)

Handles(t) == HandlesFrom(t, Children(t, Nil, <<>>), 1)

\* an entry left in the buffer by an earlier use
StaleChild == Child(Pt(7, 7), Pt(7, 7), Item(0), TRUE)

\* the caller's buffer: nil, or a slice that still holds an entry
ReuseBuffers == {<<>>, <<StaleChild>>}

ChildrenAct ==
    /\ CanQuery
    /\ \E parent \in {Nil} \cup Handles(tr), reuse \in ReuseBuffers :
         out' = [op |-> "Children", parent |-> parent, reuse |-> reuse,
                 res |-> Children(tr, parent, reuse)]
    /\ UNCHANGED <<tr, plan, next, ops, live, queue>>

\* boxDist on its own: a target box and two boxes, the second inside the
\* first.  The function reads nothing of the index, so it is applied by one
\* caller only, the one that loads nothing, on the index as constructed.
GridCorners == {Pt(x, y) : x \in 0..2, y \in 0..1}

GridBoxes ==
    {b \in [min : GridCorners, max : GridCorners] :
        b.min[0] <= b.max[0] /\ b.min[1] <= b.max[1]}

BoxDistAct ==
    /\ out.op = "New" /\ plan.n = 0
    /\ \E t \in GridBoxes, n \in GridBoxes, b \in GridBoxes :
         /\ contains(n, b)
         /\ out' = [op |-> "boxDist", t |-> t, n |-> n, b |-> b,
                    dn |-> boxDist(t.min, t.max, n.min, n.max),
                    db |-> boxDist(t.min, t.max, b.min, b.max),
                    nd |-> boxDist(n.min, n.max, t.min, t.max),
                    ref |-> testBoxDist(t.min, t.max, n.min, n.max)]
    /\ UNCHANGED <<tr, plan, next, ops, live, queue>>

Next ==
    \/ InsertAct
    \/ DeleteAct
    \/ ReplaceAct
    \/ SearchAct
    \/ ScanAct
    \/ NearbyAct
    \/ ChildrenAct
    \/ BoxDistAct

Spec == Init /\ [][Next]_vars

(***************************************************************************)
(* The round trip of testBoxesVarious: insert N items, delete every other  *)
(* one (boxes[0], boxes[2], ...), reinsert the deleted ones in another     *)
(* order, then scan.  ops counts the deletes and reinserts done.           *)
(***************************************************************************)
Orders == {"reverse", "rotate"}

RoundTripPlans ==
    [ds : {"lop", "boxes"}, n : {4, MaxItems}, order : Orders]
    \cup [ds : {"twin"}, n : {4}, order : Orders]

Half == plan.n \div 2

\* ij[i] after the shuffle, as the id of the item (boxes[j] is item j + 1)
Shuffled(order, i, m) ==
    LET k == IF order = "reverse" THEN m - 1 - i ELSE (i + 1) % m
    IN  2 * k + 1

RtInit ==
    /\ tr = EmptyTree
    /\ plan \in RoundTripPlans
    /\ next = 1
    /\ ops = 0
    /\ live = EmptyBag
    /\ out = [op |-> "New"]
    /\ queue = EmptyQueue

RtInsertAct ==
    /\ Loading
    /\ LET inp == DataItem(plan.ds, next)
       IN  /\ tr' = Insert(tr, inp.min, inp.max, inp.data)
           /\ live' = LiveInsert(live, inp)
           /\ out' = [op |-> "Insert", arg |-> inp]
    /\ next' = next + 1
    /\ UNCHANGED <<plan, ops, queue>>

RtDeleteAct ==
    /\ ~Loading /\ ops < Half
    /\ LET inp == DataItem(plan.ds, 2 * ops + 1)
       IN  /\ tr' = Delete(tr, inp.min, inp.max, inp.data)
           /\ live' = LiveDelete(live, inp)
           /\ out' = [op |-> "Delete", arg |-> inp]
    /\ ops' = ops + 1
    /\ UNCHANGED <<plan, next, queue>>

RtReinsertAct ==
    /\ ~Loading /\ ops >= Half /\ ops < 2 * Half
    /\ LET inp == DataItem(plan.ds, Shuffled(plan.order, ops - Half, Half))
       IN  /\ tr' = Insert(tr, inp.min, inp.max, inp.data)
           /\ live' = LiveInsert(live, inp)
           /\ out' = [op |-> "Insert", arg |-> inp]
    /\ ops' = ops + 1
    /\ UNCHANGED <<plan, next, queue>>

RtScanAct ==
    /\ ~Loading /\ ops = 2 * Half /\ out.op # "Scan"
    /\ out' = [op |-> "Scan", stops |-> {}, log |-> Scan(tr, {})]
    /\ UNCHANGED <<tr, plan, next, ops, live, queue>>

RtNext ==
    \/ RtInsertAct
    \/ RtDeleteAct
    \/ RtReinsertAct
    \/ RtScanAct

SpecRoundTrip == RtInit /\ [][RtNext]_vars

(***************************************************************************)
(* The queue on its own, as in TestQueue: any interleaving of push and pop *)
(* on a queue that starts as the nil slice.                                *)
(***************************************************************************)
MaxQueue == 4       \* the longest queue

Dists == 1..3

Tags == 1..2

\* qnode{dist: d}, with a tag in the child to tell equal distances apart
QNode(d, tag) == [dist |-> d, child |-> Child(Pt(0, 0), Pt(0, 0), Item(tag), TRUE)]

\* the capacities the runtime may give a slice that append has to grow
GrowChoices(len) == {len + 1, 2 * (len + 1)}

QInit ==
    /\ tr = EmptyTree
    /\ plan = [ds |-> "zero", n |-> 0]
    /\ next = 1
    /\ ops = 0
    /\ live = EmptyBag
    /\ out = [op |-> "New"]
    /\ queue = EmptyQueue

PushAct ==
    /\ Len(queue.nodes) < MaxQueue
    /\ \E d \in Dists, tag \in Tags, newcap \in GrowChoices(Len(queue.nodes)) :
         /\ queue' = [nodes |-> push(queue.nodes, QNode(d, tag)),
                      cap   |-> appendCap(Len(queue.nodes), queue.cap, newcap)]
         /\ out' = [op |-> "push", arg |-> QNode(d, tag)]
    /\ UNCHANGED <<tr, plan, next, ops, live>>

PopAct ==
    /\ LET p == pop(queue.nodes)
       IN  /\ queue' = [nodes |-> p.q,
                        cap   |-> IF p.ok
                                  THEN resliceCap(Len(queue.nodes), queue.cap)
                                  ELSE queue.cap]
           /\ out' = [op |-> "pop", n |-> p.n, ok |-> p.ok]
    /\ UNCHANGED <<tr, plan, next, ops, live>>

QNext ==
    \/ PushAct
    \/ PopAct

SpecQueue == QInit /\ [][QNext]_vars

(***************************************************************************)
(* The split on its own: a node is filled entry by entry, its box grown as *)
(* RTree.insert grows it, until it holds maxEntries + 1 entries, and is    *)
(* then split.  out holds the node and, after the split, the two halves.   *)
(***************************************************************************)
\* the families of entries that fill the node: the data sets of the caller
\* and four more that make ties, a taller box and a square box
SplitFamilies == DatasetNames \cup {"ties", "span", "tall", "square"}

SplitBox(fam, id) ==
    CASE fam = "ties"   -> IF id <= 10 THEN Box(0, 0, 0, 0)
                           ELSE IF id <= 13 THEN Box(10, 0, 10, 0)
                           ELSE Box(5, id % 3, 5, id % 3)
      [] fam = "span"   -> IF id % 4 = 1 THEN Box(0, 0, 8, id % 3)
                           ELSE IF id % 4 = 2 THEN Box(3, 1, 5, 1)
                           ELSE Box(id % 9, 0, id % 9, 1)
      [] fam = "tall"   -> Box(id % 2, id, id % 2, id)
      [] fam = "square" -> Box(id % 5, (2 * id) % 5, id % 5, (2 * id) % 5)
      [] OTHER          -> DataBox(fam, id)

SplitItem(fam, id) == fit(SplitBox(fam, id).min, SplitBox(fam, id).max, Item(id), ZeroRect)

\* RTree.insert up to the test of the count, on a root of height 0
SplitFill(r, item) ==
    LET root0 == IF r.data = Nil THEN fit(item.min, item.max, NewNode, r) ELSE r
        res   == rectInsert(root0, item, 0)
    IN  IF res.grown THEN expand(res.r, item) ELSE res.r

SpInit ==
    /\ tr = EmptyTree
    /\ plan \in [ds : SplitFamilies, n : {maxEntries + 1}]
    /\ next = 1
    /\ ops = 0
    /\ live = EmptyBag
    /\ out = [op |-> "fill", r |-> ZeroRect]
    /\ queue = EmptyQueue

FillAct ==
    /\ out.op = "fill" /\ next <= plan.n
    /\ out' = [op |-> "fill", r |-> SplitFill(out.r, SplitItem(plan.ds, next))]
    /\ next' = next + 1
    /\ UNCHANGED <<tr, plan, ops, live, queue>>

\* if count == maxEntries+1 { r.splitLargestAxisEdgeSnap(&right) }
SplitAct ==
    /\ out.op = "fill" /\ out.r.data # Nil
    /\ out.r.data.count = maxEntries + 1
    /\ LET sp == splitLargestAxisEdgeSnap(out.r, NewNode.rects[1])
       IN  out' = [op |-> "split", r |-> out.r, left |-> sp.left, right |-> sp.right]
    /\ UNCHANGED <<tr, plan, next, ops, live, queue>>

SpNext ==
    \/ FillAct
    \/ SplitAct

SpecSplit == SpInit /\ [][SpNext]_vars

(***************************************************************************)
(* The descent of rect.insert on its own: an internal node one level above *)
(* the leaves, with two or three children of one item each, takes one more *)
(* item.  out holds the node and, after the insert, the index chosen and   *)
(* the node as rect.insert left it.                                        *)
(***************************************************************************)
\* a leaf that holds one item and has its box
LeafOf(b, id) ==
    fit(b.min, b.max, [NewNode EXCEPT !.rects[0] = fit(b.min, b.max, Item(id), ZeroRect),
                                      !.count = 1], ZeroRect)

\* the boxes of a third child
ThirdBoxes == {Box(0, 0, 0, 0), Box(0, 0, 2, 1), Box(1, 0, 2, 0), Box(2, 1, 2, 1)}

ChildBoxLists ==
    {<<a, b>> : a \in GridBoxes, b \in GridBoxes}
    \cup {<<a, b, c>> : a \in ThirdBoxes, b \in ThirdBoxes, c \in ThirdBoxes}

\* the internal node over the leaves of the boxes bs, with its tight box
NodeOver(bs) ==
    recalc([ZeroRect EXCEPT
              !.data = [NewNode EXCEPT
                          !.rects = [i \in 0..maxEntries |->
                                        IF i < Len(bs) THEN LeafOf(bs[i + 1], i + 1)
                                        ELSE ZeroRect],
                          !.count = Len(bs)]])

ChInit ==
    /\ tr = EmptyTree
    /\ plan = [ds |-> "zero", n |-> 0]
    /\ next = 1
    /\ ops = 0
    /\ live = EmptyBag
    /\ \E bs \in ChildBoxLists : out = [op |-> "node", r |-> NodeOver(bs)]
    /\ queue = EmptyQueue

\* r.insert(item, 1)
DescendAct ==
    /\ out.op = "node"
    /\ \E b \in GridBoxes :
         LET item == fit(b.min, b.max, Item(0), ZeroRect)
         IN  out' = [op |-> "descend", r |-> out.r, item |-> item,
                     index |-> chooseSubtree(out.r, item),
                     res |-> rectInsert(out.r, item, 1)]
    /\ UNCHANGED <<tr, plan, next, ops, live, queue>>

ChNext == DescendAct

SpecChoose == ChInit /\ [][ChNext]_vars

(***************************************************************************)
(* Vocabulary of the properties.                                           *)
(***************************************************************************)
Range(s) == {s[i] : i \in DOMAIN s}

BagOfSeq(s) == [e \in Range(s) |-> Cardinality({i \in DOMAIN s : s[i] = e})]

Entry(e) == [min |-> e.min, max |-> e.max, data |-> e.data]

EntriesOf(s) == [i \in DOMAIN s |-> Entry(s[i])]

\* the entries stored in the leaves of the tree
Stored(t) == IF t.root.data = Nil THEN <<>> ELSE EntriesOf(flatten(t.root, <<>>, t.height))

IsIter(e) == e.ev = "iter"

IterEvents(log) == SelectSeq(log, IsIter)

AllTrue(log) == \A i \in DOMAIN log : log[i].ret

\* false is answered, if at all, by the last call of the log
FalseIsLast(log) == \A i \in DOMAIN log : ~log[i].ret => i = Len(log)

\* algo of every node's box is <= algo of the box of every item below it
RECURSIVE MonotoneAt(_, _, _)
MonotoneAt(a, r, height) ==
    LET d == ApplyAlgo(a, r.min, r.max, r.data, FALSE)
        below == flatten(r, <<>>, height)
    IN  /\ \A i \in DOMAIN below :
             d <= ApplyAlgo(a, below[i].min, below[i].max, below[i].data, TRUE)
        /\ height > 0 =>
             \A i \in 0..(r.data.count - 1) : MonotoneAt(a, r.data.rects[i], height - 1)

Monotone(a, t) == t.root.data = Nil \/ MonotoneAt(a, t.root, t.height)

NearbyDone == out.op = "Nearby"

(***************************************************************************)
(* C1: with a monotone algo the distances Nearby passes to iter never      *)
(* decrease, and each is the value of algo for the entry it comes with.    *)
(***************************************************************************)
C1_NearbyNonDecreasing ==
    (NearbyDone /\ Monotone(out.arg, tr)) =>
        LET it == IterEvents(out.log)
        IN  /\ \A i \in 1..(Len(it) - 1) : it[i].dist <= it[i + 1].dist
            /\ \A i \in DOMAIN it :
                 it[i].dist = ApplyAlgo(out.arg, it[i].min, it[i].max, it[i].data, TRUE)

C1_Witness ==
    /\ NearbyDone /\ out.arg.kind = "box" /\ Monotone(out.arg, tr)
    /\ tr.height >= 1
    /\ LET it == IterEvents(out.log)
       IN  /\ Len(it) >= 3
           /\ \E i \in 1..(Len(it) - 1) : it[i].dist < it[i + 1].dist

(***************************************************************************)
(* C2: with a monotone algo, when an item is passed to iter no stored item *)
(* that is still unreported has a strictly smaller distance.               *)
(***************************************************************************)
Unreported(t, it, k) ==
    LET stored   == BagOfSeq(Stored(t))
        reported == BagOfSeq(EntriesOf(SubSeq(it, 1, k - 1)))
    IN  {e \in BagToSet(stored) : CopiesIn(e, stored) > CopiesIn(e, reported)}

C2_NearbyNearestFirst ==
    (NearbyDone /\ Monotone(out.arg, tr)) =>
        LET it == IterEvents(out.log)
        IN  \A k \in DOMAIN it :
              \A e \in Unreported(tr, it, k) :
                 ApplyAlgo(out.arg, e.min, e.max, e.data, TRUE) >= it[k].dist

C2_Witness ==
    /\ NearbyDone /\ Monotone(out.arg, tr) /\ tr.height >= 1
    /\ LET it == IterEvents(out.log)
       IN  /\ Len(it) = 2 /\ ~it[2].ret /\ out.stops = {2, 3}
           /\ \E e \in Unreported(tr, it, 3) :
                 ApplyAlgo(out.arg, e.min, e.max, e.data, TRUE) > it[2].dist

(***************************************************************************)
(* C3: when iter never answers false, Nearby passes every stored item to   *)
(* iter exactly once, whatever the algo, and never passes a node handle.   *)
(***************************************************************************)
C3_NearbyComplete ==
    LET it == IterEvents(out.log)
    IN  (NearbyDone /\ AllTrue(it)) =>
           /\ BagOfSeq(EntriesOf(it)) = BagOfSeq(Stored(tr))
           /\ Len(it) = TreeLen(tr)
           /\ \A i \in DOMAIN it : it[i].data.tag = "item"

C3_Witness ==
    /\ NearbyDone /\ out.stops = {} /\ ~Monotone(out.arg, tr)
    /\ tr.height >= 1 /\ TreeLen(tr) > maxEntries
    /\ Len(IterEvents(out.log)) = TreeLen(tr)

(***************************************************************************)
(* C4: once iter has answered false Nearby returns: that call of iter is   *)
(* the last event of the log, so an iter that answers false at once is     *)
(* called exactly once on a tree that is not empty.                        *)
(***************************************************************************)
C4_NearbyStops ==
    NearbyDone =>
        /\ \A i \in DOMAIN out.log :
              (IsIter(out.log[i]) /\ ~out.log[i].ret) => i = Len(out.log)
        /\ (1 \in out.stops /\ TreeLen(tr) > 0) => Len(IterEvents(out.log)) = 1

C4_Witness ==
    /\ NearbyDone /\ out.stops = {1, 2} /\ TreeLen(tr) > maxEntries
    /\ Len(IterEvents(out.log)) = 1
    /\ ~Last(out.log).ret

(***************************************************************************)
(* C5: on a tree with Len() = 0 Nearby calls Children(nil) once, gets no   *)
(* entry, and calls neither algo nor iter.                                 *)
(***************************************************************************)
C5_NearbyEmpty ==
    (NearbyDone /\ TreeLen(tr) = 0) =>
        out.log = <<[ev |-> "Children", parent |-> Nil, n |-> 0]>>

C5_Witness ==
    /\ NearbyDone /\ TreeLen(tr) = 0
    /\ ops > 0 /\ plan.n > 0
    /\ out.log = <<[ev |-> "Children", parent |-> Nil, n |-> 0]>>

(***************************************************************************)
(* C6: Scan with a visitor that always answers true visits exactly the     *)
(* pairs that were inserted and not deleted, each occurrence once, and     *)
(* Len() is their number.                                                  *)
(***************************************************************************)
C6_ScanIsLive ==
    (out.op = "Scan" /\ AllTrue(out.log)) =>
        /\ BagOfSeq(EntriesOf(out.log)) = live
        /\ TreeLen(tr) = BagCardinality(live)

(***************************************************************************)
(* C7: Search(Q) with a visitor that always answers true visits exactly    *)
(* the stored items whose box intersects or touches Q, each once.          *)
(***************************************************************************)
Touches(q, e) ==
    \A a \in 0..1 : q.min[a] <= e.max[a] /\ e.min[a] <= q.max[a]

OnlyTouches(q, e) ==
    /\ Touches(q, e)
    /\ \E a \in 0..1 : q.min[a] = e.max[a] \/ e.min[a] = q.max[a]

Matching(t, q) ==
    LET st == Stored(t)
    IN  BagOfSeq([k \in {i \in DOMAIN st : Touches(q, st[i])} |-> st[k]])

C7_SearchExact ==
    (out.op = "Search" /\ AllTrue(out.log)) =>
        BagOfSeq(EntriesOf(out.log)) = Matching(tr, out.arg)

C7_Witness ==
    /\ out.op = "Search" /\ out.stops = {} /\ tr.height >= 1
    /\ Len(out.log) > 0 /\ Len(out.log) < TreeLen(tr)
    /\ \E i \in DOMAIN out.log : OnlyTouches(out.arg, out.log[i])

(***************************************************************************)
(* C8: in Search and in Scan the visitor is not called again after it has  *)
(* answered false, whatever the height of the tree.                        *)
(***************************************************************************)
C8_VisitorStops ==
    out.op \in {"Search", "Scan"} => FalseIsLast(out.log)

C8_Witness ==
    /\ out.op = "Scan" /\ tr.height = 2 /\ out.stops = {1, 2}
    /\ Len(out.log) = 1 /\ ~out.log[1].ret

(***************************************************************************)
(* C9: Delete(box, data) removes an entry only when the entry's box and    *)
(* data both equal the arguments; when the pair is not stored, Len and the *)
(* contents of the tree are unchanged.                                     *)
(***************************************************************************)
C9_DeleteMatchesPair ==
    [][(out'.op = "Delete" /\ Entry(out'.arg) \notin Range(Stored(tr)))
          => /\ TreeLen(tr') = TreeLen(tr)
             /\ BagOfSeq(Stored(tr')) = BagOfSeq(Stored(tr))]_vars

(***************************************************************************)
(* C10: Delete of a pair whose data is stored nowhere in the tree leaves   *)
(* the whole tree unchanged: Len, height, every node and every box.        *)
(***************************************************************************)
DataStored(t, data) == \E e \in Range(Stored(t)) : e.data = data

C10_DeleteAbsentFrame ==
    [][(out'.op = "Delete" /\ ~DataStored(tr, out'.arg.data)) => tr' = tr]_vars

C10_Witness ==
    /\ out.op = "Delete" /\ ops = 1 /\ out.arg.data = Item(AbsentId)
    /\ ~DataStored(tr, out.arg.data)
    /\ tr.height >= 1 /\ contains(tr.root, out.arg)


(***************************************************************************)
(* C11: Delete(box, data) of a stored pair removes exactly one occurrence  *)
(* of that pair: Len decreases by exactly 1 and every other stored entry   *)
(* is still stored afterwards, also when nodes underflow and their items   *)
(* are reinserted.                                                         *)
(***************************************************************************)
PairStored(t, p) == Entry(p) \in Range(Stored(t))

C11_DeleteRemovesOne ==
    [][(out'.op = "Delete" /\ PairStored(tr, out'.arg))
          => /\ TreeLen(tr') = TreeLen(tr) - 1
             /\ BagOfSeq(Stored(tr')) (+) SetToBag({Entry(out'.arg)})
                  = BagOfSeq(Stored(tr))]_vars

(***************************************************************************)
(* C12: Replace(old, new) leaves the same stored pairs and the same Len as *)
(* Delete(old) followed by Insert(new); Len is unchanged when the old pair *)
(* is stored and grows by 1 when it is not.                                *)
(***************************************************************************)
C12_ReplaceIsDeleteInsert ==
    [][out'.op = "Replace"
          => LET old == out'.arg.old
                 new == out'.arg.new
                 two == Insert(Delete(tr, old.min, old.max, old.data),
                               new.min, new.max, new.data)
             IN  /\ BagOfSeq(Stored(tr')) = BagOfSeq(Stored(two))
                 /\ TreeLen(tr') = TreeLen(two)
                 /\ TreeLen(tr') = IF PairStored(tr, old)
                                   THEN TreeLen(tr)
                                   ELSE TreeLen(tr) + 1]_vars


(***************************************************************************)
(* C13: after inserting N items, deleting every other one and reinserting  *)
(* the deleted ones in a different order, Scan visits, as a set, exactly   *)
(* the original N items and Len() = N.                                     *)
(***************************************************************************)
C13_RoundTrip ==
    (out.op = "Scan" /\ ~Loading /\ ops = 2 * Half) =>
        /\ Range(EntriesOf(out.log)) = {DataItem(plan.ds, id) : id \in 1..plan.n}
        /\ TreeLen(tr) = plan.n


(***************************************************************************)
(* C14: after any sequence of Insert, Delete and Replace, Bounds() is the  *)
(* minimum bounding box of the stored item boxes when Len() > 0 (it        *)
(* shrinks again when an item on the boundary is deleted) and the zero box *)
(* when Len() = 0.                                                         *)
(***************************************************************************)
Least(S) == CHOOSE x \in S : \A y \in S : x <= y

Greatest(S) == CHOOSE x \in S : \A y \in S : x >= y

\* the minimum bounding box of a non-empty sequence of entries
MBR(s) ==
    [min |-> [a \in 0..1 |-> Least({s[i].min[a] : i \in DOMAIN s})],
     max |-> [a \in 0..1 |-> Greatest({s[i].max[a] : i \in DOMAIN s})]]

\* Every tree the program reaches is the tree of a state that the
\* construction or a mutation left (a query leaves tr unchanged), so the
\* properties of the tree alone are stated for those states.
TreeFresh == CanQuery

C14_BoundsIsMBR ==
    TreeFresh =>
        IF TreeLen(tr) > 0
        THEN Bounds(tr) = MBR(Stored(tr))
        ELSE Bounds(tr) = Box(0, 0, 0, 0)

\* a stored item on the boundary was deleted and the bounds no longer reach it
C14_Witness ==
    /\ out.op = "Delete" /\ ops = 1 /\ TreeLen(tr) > 0 /\ tr.height >= 1
    /\ \E id \in 1..plan.n : out.arg = DataItem(plan.ds, id)
    /\ ~PairStored(tr, out.arg)
    /\ ~contains(Bounds(tr), out.arg)


(***************************************************************************)
(* C15, as claimed: Children(nil) returns the entries stored in the root   *)
(* node, one per entry of the root node (the stored items with Item = true *)
(* for a tree of height 0), and the empty list when the tree is empty.     *)
(***************************************************************************)
ChildEntry(c) == [min |-> c.Min, max |-> c.Max, data |-> c.Data]

ChildEntries(cs) == [k \in DOMAIN cs |-> ChildEntry(cs[k])]

ChildrenOfNil == out.op = "Children" /\ out.parent = Nil /\ out.reuse = <<>>

C15_ChildrenNilIsRootEntries ==
    ChildrenOfNil =>
        IF TreeLen(tr) = 0
        THEN out.res = <<>>
        ELSE /\ Len(out.res) = tr.root.data.count
             /\ \A k \in DOMAIN out.res :
                  /\ ChildEntry(out.res[k]) = Entry(tr.root.data.rects[k - 1])
                  /\ out.res[k].Item = (tr.height = 0)

(***************************************************************************)
(* C15, amended: Children(nil) returns the empty list when the tree is     *)
(* empty and otherwise exactly one entry with Item = false whose box is    *)
(* the bounding box of all stored items; Children of that entry's Data     *)
(* returns the entries of the root node, which for a tree of height 0 are  *)
(* the stored items themselves with Item = true.                           *)
(***************************************************************************)
C15_ChildrenNilIsRoot ==
    ChildrenOfNil =>
        IF TreeLen(tr) = 0
        THEN out.res = <<>>
        ELSE /\ Len(out.res) = 1
             /\ ~out.res[1].Item
             /\ [min |-> out.res[1].Min, max |-> out.res[1].Max] = MBR(Stored(tr))
             /\ LET below == Children(tr, out.res[1].Data, <<>>)
                IN  /\ Len(below) = tr.root.data.count
                    /\ tr.height = 0 =>
                         /\ BagOfSeq(ChildEntries(below)) = BagOfSeq(Stored(tr))
                         /\ \A k \in DOMAIN below : below[k].Item

C15_Witness ==
    /\ ChildrenOfNil /\ tr.height = 0 /\ TreeLen(tr) = 3
    /\ Len(out.res) = 1

(***************************************************************************)
(* C16: for an entry returned with Item = false, Children of its Data      *)
(* returns that node's direct entries, all with the same Item flag, which  *)
(* is true exactly when the entries are caller items; every box returned   *)
(* lies inside the box of the entry above it; expanding from Children(nil) *)
(* reaches every stored item exactly once.                                 *)
(***************************************************************************)
RECURSIVE ExpandOK(_, _)
ExpandOK(t, c) ==
    LET cs == Children(t, c.Data, <<>>)
    IN  /\ Len(cs) = c.Data.count
        /\ \A k \in DOMAIN cs :
             /\ ChildEntry(cs[k]) = Entry(c.Data.rects[k - 1])
             /\ cs[k].Item = cs[1].Item
             /\ cs[k].Item = ~IsNode(cs[k].Data)
             /\ contains(ChildEntry(c), ChildEntry(cs[k]))
             /\ ~cs[k].Item => ExpandOK(t, cs[k])

RECURSIVE ExpandItems(_, _, _)
ExpandItems(t, cs, k) ==
    IF k > Len(cs)
    THEN <<>>
    ELSE (IF cs[k].Item
          THEN <<ChildEntry(cs[k])>>
          ELSE ExpandItems(t, Children(t, cs[k].Data, <<>>), 1))
         \o ExpandItems(t, cs, k + 1)

C16_ChildrenExpand ==
    LET top == Children(tr, Nil, <<>>)
    IN  /\ TreeFresh =>
              /\ \A k \in DOMAIN top : ~top[k].Item => ExpandOK(tr, top[k])
              /\ BagOfSeq(ExpandItems(tr, top, 1)) = BagOfSeq(Stored(tr))
        /\ (out.op = "Children" /\ out.parent # Nil /\ out.reuse = <<>>) =>
              /\ Len(out.res) = out.parent.count
              /\ \A k \in DOMAIN out.res :
                   out.res[k].Item = ~IsNode(out.res[k].Data)

\* Children of a node of a tree of height 2 that holds nodes
C16_Witness ==
    /\ out.op = "Children" /\ out.parent # Nil /\ out.reuse = <<>>
    /\ tr.height = 2 /\ out.parent # tr.root.data
    /\ Len(out.res) >= 2 /\ ~out.res[1].Item

(***************************************************************************)
(* C17, as claimed: the list Children returns does not depend on what the  *)
(* reuse buffer holds; a buffer that still holds entries gives the same    *)
(* list as nil.                                                            *)
(***************************************************************************)
C17_ReuseIgnored ==
    out.op = "Children" => out.res = Children(tr, out.parent, <<>>)

(***************************************************************************)
(* C17, amended: Children appends to the reuse buffer, so the list it      *)
(* returns is what the buffer held followed by the children it returns for *)
(* nil; a buffer of length 0 gives the same list as nil.                   *)
(***************************************************************************)
C17_ReuseAppended ==
    out.op = "Children" =>
        LET fresh == Children(tr, out.parent, <<>>)
            kept  == Len(out.reuse)
        IN  /\ Len(out.res) = kept + Len(fresh)
            /\ SubSeq(out.res, 1, kept) = out.reuse
            /\ SubSeq(out.res, kept + 1, Len(out.res)) = fresh
            /\ StaleChild \in Range(out.res) <=> StaleChild \in Range(out.reuse)

C17_Witness ==
    /\ out.op = "Children" /\ out.reuse = <<StaleChild>> /\ out.parent # Nil
    /\ tr.height >= 1 /\ Len(out.res) > 2


(***************************************************************************)
(* C18: in any interleaving of push and pop, pop on a non-empty queue      *)
(* returns ok = true and an entry of minimum dist among the entries held,  *)
(* and removes exactly that entry (the length drops by 1, the others are   *)
(* kept); two pops in a row return non-decreasing dists; pop on an empty   *)
(* queue returns ok = false and leaves the queue empty.                    *)
(***************************************************************************)
C18_PopMin ==
    [][out'.op = "pop" =>
         IF Len(queue.nodes) = 0
         THEN ~out'.ok /\ queue'.nodes = <<>>
         ELSE /\ out'.ok
              /\ out'.n \in Range(queue.nodes)
              /\ \A e \in Range(queue.nodes) : out'.n.dist <= e.dist
              /\ Len(queue'.nodes) = Len(queue.nodes) - 1
              /\ BagOfSeq(queue'.nodes) (+) SetToBag({out'.n}) = BagOfSeq(queue.nodes)
              /\ (out.op = "pop" /\ out.ok) => out.n.dist <= out'.n.dist]_vars

\* a pop that had to choose: a larger entry and an equal one stay behind
C18_Witness ==
    /\ out.op = "pop" /\ out.ok /\ Len(queue.nodes) = MaxQueue - 1
    /\ \E e \in Range(queue.nodes) : e.dist > out.n.dist
    /\ \E e \in Range(queue.nodes) : e.dist = out.n.dist /\ e # out.n

(***************************************************************************)
(* C19: the queue reuses its backing storage: pop never changes the        *)
(* capacity, and a push made while the queue holds fewer entries than its  *)
(* capacity does not change it either.                                     *)
(***************************************************************************)
C19_CapacityKept ==
    [][/\ out'.op = "pop" => queue'.cap = queue.cap
       /\ (out'.op = "push" /\ Len(queue.nodes) < queue.cap) => queue'.cap = queue.cap
       /\ Len(queue'.nodes) <= queue'.cap]_vars

\* a push into room that earlier pops left: the capacity 3 is only given
\* when the third entry is pushed, and the queue holds two entries again
C19_Witness ==
    /\ out.op = "push" /\ Len(queue.nodes) = 2 /\ queue.cap = 3


(***************************************************************************)
(* C20: boxDist is monotone: for every target T and boxes N, B with B      *)
(* inside N, boxDist(T, N) <= boxDist(T, B); and in every reachable tree   *)
(* the box distance of every node's box is <= the box distance of the box  *)
(* of every item below that node.                                          *)
(***************************************************************************)
C20_BoxDistMonotone ==
    /\ out.op = "boxDist" => out.dn <= out.db
    /\ TreeFresh => \A t \in QueryBoxes : Monotone([kind |-> "box", t |-> t], tr)

\* the outer box is strictly nearer, and both are away from the target in
\* both axes
C20_Witness ==
    /\ out.op = "boxDist" /\ out.n # out.b
    /\ 0 < out.dn /\ out.dn < out.db
    /\ out.t.min[1] > out.b.max[1] /\ out.t.min[0] > out.b.max[0]

(***************************************************************************)
(* C21: boxDist(A, B) is the sum over the two axes of gap * gap, where     *)
(* gap = max(A.min, B.min) - min(A.max, B.max) counts only when gap > 0;   *)
(* it is symmetric in A and B, it is 0 exactly when A and B intersect or   *)
(* touch, and it equals the loop-form reference testBoxDist.               *)
(***************************************************************************)
Gap(a, b, k) ==
    Greatest({a.min[k], b.min[k]}) - Least({a.max[k], b.max[k]})

GapSquared(a, b, k) == IF Gap(a, b, k) > 0 THEN Gap(a, b, k) * Gap(a, b, k) ELSE 0

C21_BoxDistGapSum ==
    out.op = "boxDist" =>
        /\ out.dn = GapSquared(out.t, out.n, 0) + GapSquared(out.t, out.n, 1)
        /\ out.dn = out.nd
        /\ (out.dn = 0) <=> intersects(out.t, out.n)
        /\ out.dn = out.ref

\* the two boxes are apart in both axes and differ in size
C21_Witness ==
    /\ out.op = "boxDist"
    /\ Gap(out.t, out.n, 0) > 0 /\ Gap(out.t, out.n, 1) > 0
    /\ out.dn = 2 /\ out.nd = 2 /\ out.ref = 2
    /\ out.t.min # out.t.max /\ out.n.min = out.n.max

(***************************************************************************)
(* C22: after every completed Insert, Delete or Replace the box of the     *)
(* root and of every internal entry is the tight minimum bounding box of   *)
(* the entries of the node it points to; the on-edge test of delete never  *)
(* leaves a box larger than the bounding box of the remaining entries.     *)
(***************************************************************************)
EntriesIn(n) == [k \in 1..n.count |-> n.rects[k - 1]]

RECURSIVE TightAt(_, _)
TightAt(r, height) ==
    /\ r.data.count > 0
    /\ [min |-> r.min, max |-> r.max] = MBR(EntriesIn(r.data))
    /\ height > 0 => \A i \in 0..(r.data.count - 1) :
                         TightAt(r.data.rects[i], height - 1)

C22_BoxesTight ==
    TreeFresh => (tr.root.data = Nil \/ TightAt(tr.root, tr.height))

\* a delete took an item off the edge of a leaf below the root: the bounds
\* of the tree still cover the deleted box and no entry of the root does
C22_Witness ==
    /\ out.op = "Delete" /\ ops = 1 /\ tr.height >= 1
    /\ \E id \in 1..plan.n : out.arg = DataItem(plan.ds, id)
    /\ ~PairStored(tr, out.arg)
    /\ contains(Bounds(tr), out.arg)
    /\ \A i \in 0..(tr.root.data.count - 1) :
          ~contains(tr.root.data.rects[i], out.arg)

(***************************************************************************)
(* C23: after every completed Insert, Delete or Replace all leaf nodes are *)
(* at the same depth, the tree's height field: every path from the root    *)
(* node to a caller item passes through exactly height + 1 nodes.          *)
(***************************************************************************)
RECURSIVE LeavesAt(_, _)
LeavesAt(n, height) ==
    /\ IsNode(n)
    /\ \A i \in 0..(n.count - 1) :
          IF height = 0
          THEN n.rects[i].data.tag = "item"
          ELSE LeavesAt(n.rects[i].data, height - 1)

C23_UniformDepth ==
    TreeFresh => (tr.root.data = Nil \/ LeavesAt(tr.root.data, tr.height))

\* a delete left the root of a tree of height 1 with a single child, which
\* became the root: the items are one node below the root again
C23_Witness ==
    /\ out.op = "Delete" /\ plan.n = maxEntries + 1 /\ ops = 1
    /\ TreeLen(tr) = maxEntries
    /\ tr.height = 0
    /\ \A i \in 0..(tr.root.data.count - 1) : tr.root.data.rects[i].data.tag = "item"

(***************************************************************************)
(* C24, as claimed: after every completed Insert, Delete or Replace every  *)
(* non-root node holds at least minEntries (6) entries.                    *)
(***************************************************************************)
\* every node below the node n, which stands height levels above the leaves,
\* holds at least k entries
RECURSIVE BelowHoldAtLeast(_, _, _)
BelowHoldAtLeast(n, height, k) ==
    height > 0 =>
        \A i \in 0..(n.count - 1) :
            /\ n.rects[i].data.count >= k
            /\ BelowHoldAtLeast(n.rects[i].data, height - 1, k)

RECURSIVE SlotsWithin(_, _)
SlotsWithin(n, height) ==
    /\ n.count <= maxEntries
    /\ DOMAIN n.rects = 0..maxEntries
    /\ \A i \in 0..(n.count - 1) :
          /\ n.rects[i].data # Nil
          /\ height > 0 => SlotsWithin(n.rects[i].data, height - 1)

C25_NoOverflow ==
    TreeFresh =>
        \/ tr.root.data = Nil
        \/ SlotsWithin(tr.root.data, tr.height) /\ TreeLen(tr) = Len(Stored(tr))

\* more than maxEntries identical points were inserted and the full leaf was
\* split
C25_Witness ==
    /\ out.op = "Insert" /\ plan.ds = "zero"
    /\ TreeLen(tr) > maxEntries
    /\ tr.height = 1 /\ tr.root.data.count = 2
    /\ \A i \in 0..1 : tr.root.data.rects[i].data.count >= maxEntries \div 2

(***************************************************************************)
(* C26: splitting a node of maxEntries + 1 entries with a tight box yields *)
(* two nodes that are both non-empty, whose entries together are exactly   *)
(* the original entries (none lost, duplicated or shared), and whose boxes *)
(* are each the tight bounding box of their own entries.                   *)
(***************************************************************************)
SplitDone == out.op = "split"

BoxOf(r) == [min |-> r.min, max |-> r.max]

C26_SplitPartitions ==
    SplitDone =>
        /\ out.left.data.count > 0 /\ out.right.data.count > 0
        /\ BagOfSeq(EntriesIn(out.left.data)) (+) BagOfSeq(EntriesIn(out.right.data))
             = BagOfSeq(EntriesIn(out.r.data))
        /\ out.left.data.count + out.right.data.count = maxEntries + 1
        /\ BoxOf(out.left) = MBR(EntriesIn(out.left.data))
        /\ BoxOf(out.right) = MBR(EntriesIn(out.right.data))

\* a tight node of boxes was split into two halves of several entries each
C26_Witness ==
    /\ SplitDone /\ plan.ds = "boxes"
    /\ out.r.data.count = maxEntries + 1
    /\ BoxOf(out.r) = MBR(EntriesIn(out.r.data))
    /\ out.left.data.count > 1 /\ out.right.data.count > 1
    /\ BoxOf(out.left) # BoxOf(out.right)

(***************************************************************************)
(* C27: the split assigns entries on the axis of larger extent of the      *)
(* node's box (x when the extents are equal): an entry strictly nearer the *)
(* min edge stays in the left node, one strictly nearer the max edge goes  *)
(* to the right node, and each exact tie goes, one at a time, to the half  *)
(* that has fewer entries at that moment (to the right half when the       *)
(* counts are equal); a node whose entries all tie splits into halves      *)
(* whose sizes differ by at most 1.                                        *)
(***************************************************************************)
SplitAxis(r) == IF r.max[0] - r.min[0] >= r.max[1] - r.min[1] THEN 0 ELSE 1

MinDist(r, e) == e.min[SplitAxis(r)] - r.min[SplitAxis(r)]

MaxDist(r, e) == r.max[SplitAxis(r)] - e.max[SplitAxis(r)]

NearMin(r) == {e \in Range(EntriesIn(r.data)) : MinDist(r, e) < MaxDist(r, e)}

NearMax(r) == {e \in Range(EntriesIn(r.data)) : MinDist(r, e) > MaxDist(r, e)}

Ties(r) == {e \in Range(EntriesIn(r.data)) : MinDist(r, e) = MaxDist(r, e)}

\* the sizes of the halves after t ties were handed out one at a time
RECURSIVE TieCounts(_, _, _)
TieCounts(l, r, t) ==
    IF t = 0 THEN <<l, r>>
    ELSE IF l < r THEN TieCounts(l + 1, r, t - 1) ELSE TieCounts(l, r + 1, t - 1)

C27_SplitRule ==
    SplitDone =>
        /\ NearMin(out.r) \subseteq Range(EntriesIn(out.left.data))
        /\ NearMax(out.r) \subseteq Range(EntriesIn(out.right.data))
        /\ <<out.left.data.count, out.right.data.count>>
             = TieCounts(Cardinality(NearMin(out.r)), Cardinality(NearMax(out.r)),
                         Cardinality(Ties(out.r)))
        /\ Ties(out.r) = Range(EntriesIn(out.r.data)) =>
              /\ out.left.data.count - out.right.data.count \in {-1, 0, 1}

\* ten entries near the min edge, three near the max edge and twenty ties:
\* the ties first fill up the right half, then go to either half in turn
C27_Witness ==
    /\ SplitDone /\ plan.ds = "ties"
    /\ Cardinality(NearMin(out.r)) = 10 /\ Cardinality(NearMax(out.r)) = 3
    /\ Cardinality(Ties(out.r)) = 20
    /\ out.left.data.count = 16 /\ out.right.data.count = 17
    /\ Ties(out.r) \cap Range(EntriesIn(out.left.data)) # {}
    /\ Ties(out.r) \cap Range(EntriesIn(out.right.data)) # {}

(***************************************************************************)
(* C28, as claimed: after any split every original entry's box is fully    *)
(* inside the aggregate box of exactly one of the two resulting nodes.     *)
(***************************************************************************)
C28_InsideExactlyOne ==
    SplitDone =>
        \A e \in Range(EntriesIn(out.r.data)) :
            contains(out.left, e) # contains(out.right, e)

(***************************************************************************)
(* C28, amended: after any split every original entry's box is fully       *)
(* inside the aggregate box of the resulting node that holds the entry; it *)
(* can be inside the box of the other node as well.                        *)
(***************************************************************************)
C28_InsideOwn ==
    SplitDone =>
        /\ \A e \in Range(EntriesIn(out.left.data)) : contains(out.left, e)
        /\ \A e \in Range(EntriesIn(out.right.data)) : contains(out.right, e)
        /\ \A e \in Range(EntriesIn(out.r.data)) :
              contains(out.left, e) \/ contains(out.right, e)

\* identical points were split: every entry is inside both boxes
C28_Witness ==
    /\ SplitDone /\ plan.ds = "zero"
    /\ out.left.data.count > 0 /\ out.right.data.count > 0
    /\ \A e \in Range(EntriesIn(out.r.data)) :
          contains(out.left, e) /\ contains(out.right, e)

(***************************************************************************)
(* C29: at every internal node Insert descends into the smallest-area      *)
(* child among those whose box fully contains the new item's box (the      *)
(* first such child on equal areas) if any child contains it; otherwise    *)
(* into the child that needs the least area enlargement to contain it,     *)
(* ties broken by the smaller current area, then by the lowest index.      *)
(***************************************************************************)
BoxArea(b) == (b.max[0] - b.min[0]) * (b.max[1] - b.min[1])

Enlargement(r, b) == BoxArea(MBR(<<r, b>>)) - BoxArea(r)

Inside(r, b) == MBR(<<r, b>>) = BoxOf(r)

Containing(n, b) == {i \in 0..(n.count - 1) : Inside(n.rects[i], b)}

Chosen(n, b) ==
    IF Containing(n, b) # {}
    THEN Least({i \in Containing(n, b) :
                  \A k \in Containing(n, b) : BoxArea(n.rects[i]) <= BoxArea(n.rects[k])})
    ELSE LET least == {i \in 0..(n.count - 1) :
                         \A k \in 0..(n.count - 1) :
                             Enlargement(n.rects[i], b) <= Enlargement(n.rects[k], b)}
         IN  Least({i \in least :
                      \A k \in least : BoxArea(n.rects[i]) <= BoxArea(n.rects[k])})

\* the item is in the leaf with that index, and in no other child
LandedIn(res, item, index) ==
    \A i \in 0..(res.data.count - 1) :
        (item \in Range(EntriesIn(res.data.rects[i].data))) <=> (i = index)

C29_ChooseSubtree ==
    out.op = "descend" =>
        /\ out.index = Chosen(out.r.data, out.item)
        /\ LandedIn(out.res.r, out.item, Chosen(out.r.data, out.item))

\* the item is inside no child, two children need the same least
\* enlargement and the later one, of smaller area, is chosen
C29_Witness ==
    /\ out.op = "descend"
    /\ Containing(out.r.data, out.item) = {}
    /\ \E i, k \in 0..(out.r.data.count - 1) :
          /\ i < k /\ out.index = k
          /\ Enlargement(out.r.data.rects[i], out.item)
               = Enlargement(out.r.data.rects[k], out.item)
          /\ BoxArea(out.r.data.rects[k]) < BoxArea(out.r.data.rects[i])

(***************************************************************************)
(* C30: the height grows by exactly one only when an Insert makes the root *)
(* node reach maxEntries + 1 entries, and the new root then has exactly    *)
(* two children that cover all entries; the height shrinks only inside     *)
(* Delete, by one for each collapse of a root with a single child; Search, *)
(* Scan, Nearby and Inserts that do not overflow the root never change it. *)
(***************************************************************************)
\* the entries of the root node once rect.insert has put the item below it
RootCountWith(t, p) ==
    LET item  == fit(p.min, p.max, p.data, ZeroRect)
        root0 == IF t.root.data = Nil THEN fit(p.min, p.max, NewNode, t.root) ELSE t.root
    IN  rectInsert(root0, item, t.height).r.data.count

\* the levels a chain of single-child nodes from the root makes collapse
RECURSIVE CollapseSteps(_, _)
CollapseSteps(r, height) ==
    IF height > 0 /\ r.data.count = 1
    THEN 1 + CollapseSteps(r.data.rects[0], height - 1)
    ELSE 0

\* what rect.delete leaves of the root for the pair p
RootAfterDelete(t, p) ==
    rectDelete(t.root, t.reinsert, fit(p.min, p.max, p.data, ZeroRect), t.height)

InsertHeight(t, t1, p) ==
    IF RootCountWith(t, p) = maxEntries + 1
    THEN /\ t1.height = t.height + 1
         /\ t1.root.data.count = 2
         /\ BagOfSeq(Stored(t1)) = BagOfSeq(Stored(t)) (+) SetToBag({Entry(p)})
         /\ BoxOf(t1.root) = MBR(Stored(t1))
    ELSE t1.height = t.height

\* d is what rect.delete left of the root
DeleteHeightFrom(t, t1, d) ==
    IF ~d.removed \/ TreeLen(t1) = 0
    THEN t1.height = t.height
    ELSE /\ t1.height <= t.height
         /\ t1.height >= t.height - CollapseSteps(d.r, t.height)
         /\ d.reinsert = <<>> =>
               t1.height = t.height - CollapseSteps(d.r, t.height)

DeleteHeight(t, t1, p) ==
    IF t.root.data = Nil \/ ~contains(t.root, p)
    THEN t1.height = t.height
    ELSE DeleteHeightFrom(t, t1, RootAfterDelete(t, p))

C30_HeightChanges ==
    [][/\ out'.op \notin {"Insert", "Delete", "Replace"} => tr'.height = tr.height
       /\ out'.op = "Insert" => InsertHeight(tr, tr', out'.arg)
       /\ out'.op = "Delete" => DeleteHeight(tr, tr', out'.arg)
       /\ out'.op = "Replace" =>
             LET old == out'.arg.old
                 mid == Delete(tr, old.min, old.max, old.data)
             IN  /\ DeleteHeight(tr, mid, old)
                 /\ InsertHeight(mid, tr', out'.arg.new)]_vars

\* the insert that overflowed the root of a tree of height 1: the new root
\* has two children and the tree has height 2
C30_Witness ==
    /\ out.op = "Insert" /\ TreeLen(tr) = 2 * maxEntries
    /\ tr.height = 2 /\ tr.root.data.count = 2
    /\ tr.root.data.rects[0].data.count + tr.root.data.rects[1].data.count
         = maxEntries + 1

(***************************************************************************)
(* Filling a tree, deleting every item again and inserting once more, as   *)
(* the tail of benchVarious does.                                          *)
(***************************************************************************)
DrainOrders == {"forward", "reverse"}

DrainPlans ==
    [ds : DatasetNames, n : {1, 3, maxEntries + 1, MaxItems}, order : DrainOrders]
    \cup [ds : {"twin"}, n : {3}, order : DrainOrders]

\* the id of the i-th item deleted (i from 0)
DrainId(order, i, n) == IF order = "forward" THEN i + 1 ELSE n - i

DrInit ==
    /\ tr = EmptyTree
    /\ plan \in DrainPlans
    /\ next = 1
    /\ ops = 0
    /\ live = EmptyBag
    /\ out = [op |-> "New"]
    /\ queue = EmptyQueue

DrInsertAct ==
    /\ Loading
    /\ LET inp == DataItem(plan.ds, next)
       IN  /\ tr' = Insert(tr, inp.min, inp.max, inp.data)
           /\ live' = LiveInsert(live, inp)
           /\ out' = [op |-> "Insert", arg |-> inp]
    /\ next' = next + 1
    /\ UNCHANGED <<plan, ops, queue>>

\* the number of items that rect.delete moves to the reinsertion list in
\* Delete(min, max, data)
Flattened(t, min, max, data) ==
    LET item == fit(min, max, data, ZeroRect)
    IN  IF t.root.data = Nil \/ ~contains(t.root, item)
        THEN 0
        ELSE Len(rectDelete(t.root, t.reinsert, item, t.height).reinsert)

DrDeleteAct ==
    /\ ~Loading /\ ops < plan.n
    /\ LET inp == DataItem(plan.ds, DrainId(plan.order, ops, plan.n))
       IN  /\ tr' = Delete(tr, inp.min, inp.max, inp.data)
           /\ live' = LiveDelete(live, inp)
           /\ out' = [op |-> "Delete", arg |-> inp,
                      flat |-> Flattened(tr, inp.min, inp.max, inp.data)]
    /\ ops' = ops + 1
    /\ UNCHANGED <<plan, next, queue>>

DrScanAct ==
    /\ ~Loading /\ ops = plan.n /\ out.op = "Delete"
    /\ out' = [op |-> "Scan", stops |-> {}, log |-> Scan(tr, {})]
    /\ UNCHANGED <<tr, plan, next, ops, live, queue>>

DrAgainAct ==
    /\ ~Loading /\ ops = plan.n /\ out.op = "Scan"
    /\ LET inp == DataItem(plan.ds, 1)
       IN  /\ tr' = Insert(tr, inp.min, inp.max, inp.data)
           /\ live' = LiveInsert(live, inp)
           /\ out' = [op |-> "Insert", arg |-> inp]
    /\ ops' = ops + 1
    /\ UNCHANGED <<plan, next, queue>>

DrNext ==
    \/ DrInsertAct
    \/ DrDeleteAct
    \/ DrScanAct
    \/ DrAgainAct

SpecDrain == DrInit /\ [][DrNext]_vars

\* every item of the plan has been handed to Delete
Drained == ~Loading /\ ops >= plan.n

\* the item inserted after the tree was drained
Again == DataItem(plan.ds, 1)

(***************************************************************************)
(* C32: whenever Len() = 0 after a completed operation the tree is in its  *)
(* initial state (no root node, height 0); deleting every stored item      *)
(* gives Len() = 0 and an empty Scan, and the Insert that follows behaves  *)
(* as an Insert into a new tree.                                           *)
(***************************************************************************)
C32_EmptyIsInitial ==
    /\ TreeLen(tr) = 0 => tr = EmptyTree
    /\ (Drained /\ ops = plan.n) =>
          /\ TreeLen(tr) = 0
          /\ out.op = "Scan" => out.log = <<>>
    /\ (Drained /\ ops = plan.n + 1) =>
          tr = Insert(EmptyTree, Again.min, Again.max, Again.data)

(***************************************************************************)
(* C31: after every completed Insert, Delete or Replace, if height > 0 the *)
(* root node has at least two children: a root with a single child is      *)
(* collapsed before Delete returns and reinsertion never makes one.        *)
(***************************************************************************)
C31_RootHasTwo ==
    (TreeFresh /\ tr.height > 0) => tr.root.data.count >= 2

\* a delete left the root with a single child, the root collapsed, and the
\* reinsertion of the items of the removed leaf split the new root again
C31_Witness ==
    /\ out.op = "Delete" /\ plan.n > maxEntries /\ ops = 1
    /\ TreeLen(tr) = plan.n - 1
    /\ tr.height = 1 /\ tr.root.data.count = 2
    /\ \E i \in 0..1 : tr.root.data.rects[i].data.count \in 2..(minEntries - 1)

(***************************************************************************)
(* A caller that loads a data set and, between two inserts and after the   *)
(* last one, asks one of the six queries of the index.                     *)
(***************************************************************************)
RdInsertAct ==
    /\ Loading
    /\ LET inp == DataItem(plan.ds, next)
       IN  /\ tr' = Insert(tr, inp.min, inp.max, inp.data)
           /\ live' = LiveInsert(live, inp)
           /\ out' = [op |-> "Insert", arg |-> inp]
    /\ next' = next + 1
    /\ UNCHANGED <<plan, ops, queue>>

LenAct ==
    /\ CanQuery
    /\ out' = [op |-> "Len", res |-> TreeLen(tr)]
    /\ UNCHANGED <<tr, plan, next, ops, live, queue>>

BoundsAct ==
    /\ CanQuery
    /\ out' = [op |-> "Bounds", res |-> Bounds(tr)]
    /\ UNCHANGED <<tr, plan, next, ops, live, queue>>

RdNext ==
    \/ RdInsertAct
    \/ SearchAct
    \/ ScanAct
    \/ LenAct
    \/ BoundsAct
    \/ ChildrenAct
    \/ NearbyAct

SpecReads == Init /\ [][RdNext]_vars

(***************************************************************************)
(* A caller that loads a data set and then runs one Nearby whose iter      *)
(* always answers true.  Nearby runs synchronously, so a call that has     *)
(* started takes its next loop pass: the passes are weakly fair.  The      *)
(* fairness is assumed for the calls on trees of at most FairItems items   *)
(* only, which keeps the enabledness of a pass cheap to decide; it is less *)
(* than the scheduling gives.                                              *)
(***************************************************************************)
FairItems == 3

FairCall == plan.n <= FairItems

NsInit ==
    /\ tr = EmptyTree
    /\ plan \in Plans
    /\ next = 1
    /\ ops = 0
    /\ live = EmptyBag
    /\ out = [op |-> "New"]
    /\ queue = EmptyQueue

NsInsertAct ==
    /\ Loading
    /\ LET inp == DataItem(plan.ds, next)
       IN  /\ tr' = Insert(tr, inp.min, inp.max, inp.data)
           /\ live' = LiveInsert(live, inp)
           /\ out' = [op |-> "Insert", arg |-> inp]
    /\ next' = next + 1
    /\ UNCHANGED <<plan, ops, queue>>

NsCallAct ==
    /\ ~Loading /\ out.op # "Nearby"
    /\ \E a \in Algos :
         out' = [op |-> "Nearby", arg |-> a, stops |-> {}, pc |-> "gather",
                 st |-> NearbyEntry]
    /\ UNCHANGED <<tr, plan, next, ops, live, queue>>

NsGatherAct ==
    /\ out.op = "Nearby" /\ out.pc = "gather"
    /\ out' = nearbyPass(tr, out)
    /\ UNCHANGED <<tr, plan, next, ops, live, queue>>

NsPopAct ==
    /\ out.op = "Nearby" /\ out.pc = "pop"
    /\ out' = nearbyPass(tr, out)
    /\ UNCHANGED <<tr, plan, next, ops, live, queue>>

NsNext ==
    \/ NsInsertAct
    \/ NsCallAct
    \/ NsGatherAct
    \/ NsPopAct

SpecNearbySteps ==
    /\ NsInit /\ [][NsNext]_vars
    /\ WF_vars(FairCall /\ NsGatherAct)
    /\ WF_vars(FairCall /\ NsPopAct)

(***************************************************************************)
(* The calls of one Nearby, read from its log.                             *)
(***************************************************************************)
IsChildren(e) == e.ev = "Children"

IsAlgo(e) == e.ev = "algo"

IsExpand(e) == e.ev = "expand"

\* the handle given to the Children call logged at position i
HandleAt(log, i) == IF i = 1 THEN Nil ELSE log[i - 1].data

\* Children is called first with nil and afterwards only with the handle
\* popped just before, and every popped handle goes to Children at once
ChildrenAfterPop(log) ==
    /\ IsChildren(log[1]) /\ log[1].parent = Nil
    /\ \A i \in DOMAIN log \ {1} :
         IsChildren(log[i]) =>
            /\ IsExpand(log[i - 1])
            /\ log[i].parent = Digest(log[i - 1].data)
    /\ \A i \in DOMAIN log :
         IsExpand(log[i]) => (i < Len(log) /\ IsChildren(log[i + 1]))

\* every entry popped had the least distance of the entries pushed and not
\* yet popped; held is the bag of their distances
RECURSIVE PopsLeast(_, _, _)
PopsLeast(log, i, held) ==
    IF i > Len(log)
    THEN TRUE
    ELSE LET e == log[i]
         IN  IF IsAlgo(e)
             THEN PopsLeast(log, i + 1, held (+) SetToBag({e.dist}))
             ELSE IF IsChildren(e)
             THEN PopsLeast(log, i + 1, held)
             ELSE /\ BagIn(e.dist, held)
                  /\ \A d \in BagToSet(held) : e.dist <= d
                  /\ PopsLeast(log, i + 1, held (-) SetToBag({e.dist}))

ExpandedOnce(log) ==
    \A i, j \in DOMAIN log :
       (IsExpand(log[i]) /\ IsExpand(log[j]) /\ log[i].data = log[j].data) => i = j

\* the Children call at position i is followed by one algo call for each
\* entry it returned, in order, and by no further algo call
AlgoPerChild(t, a, log, i) ==
    LET cs == Children(t, HandleAt(log, i), <<>>)
    IN  /\ log[i].n = Len(cs)
        /\ i + Len(cs) <= Len(log)
        /\ \A k \in DOMAIN cs :
             log[i + k] = [ev |-> "algo", min |-> cs[k].Min, max |-> cs[k].Max,
                           data |-> Digest(cs[k].Data), item |-> cs[k].Item,
                           dist |-> ApplyAlgo(a, cs[k].Min, cs[k].Max,
                                              cs[k].Data, cs[k].Item)]
        /\ i + Len(cs) < Len(log) => ~IsAlgo(log[i + Len(cs) + 1])

AlgoOncePerChild(t, a, log) ==
    \A i \in DOMAIN log : IsChildren(log[i]) => AlgoPerChild(t, a, log, i)

\* no node farther than the item on which iter answered false was expanded
NoFartherExpanded(log) ==
    (IsIter(Last(log)) /\ ~Last(log).ret) =>
        \A i \in DOMAIN log : IsExpand(log[i]) => log[i].dist <= Last(log).dist

(***************************************************************************)
(* C33, as claimed: Nearby calls Children once with nil and afterwards     *)
(* only with a handle it has just popped as the minimum of the heap; each  *)
(* node is expanded at most once, algo is called exactly once per entry    *)
(* returned by Children, and, whatever the algo, a node whose distance is  *)
(* strictly greater than the distance of the item on which iter returns    *)
(* false is never expanded.                                                *)
(***************************************************************************)
C33_NearbyCalls ==
    NearbyDone =>
        /\ ChildrenAfterPop(out.log)
        /\ PopsLeast(out.log, 1, EmptyBag)
        /\ ExpandedOnce(out.log)
        /\ AlgoOncePerChild(tr, out.arg, out.log)
        /\ NoFartherExpanded(out.log)

(***************************************************************************)
(* C33, amended: Nearby calls Children once with nil and afterwards only   *)
(* with a handle it has just popped as the minimum of the heap; each node  *)
(* is expanded at most once, algo is called exactly once per entry         *)
(* returned by Children, and with a monotone algo a node whose distance is *)
(* strictly greater than the distance of the item on which iter returns    *)
(* false is never expanded.                                                *)
(***************************************************************************)
C33_NearbyCallsMonotone ==
    NearbyDone =>
        /\ ChildrenAfterPop(out.log)
        /\ PopsLeast(out.log, 1, EmptyBag)
        /\ ExpandedOnce(out.log)
        /\ AlgoOncePerChild(tr, out.arg, out.log)
        /\ Monotone(out.arg, tr) => NoFartherExpanded(out.log)

\* iter answered false on the second item of a tree of height 1 under the
\* box distance: the root and one leaf were expanded, and a leaf that is
\* farther than that item is still in the heap
C33_Witness ==
    /\ NearbyDone /\ out.arg.kind = "box" /\ Monotone(out.arg, tr)
    /\ tr.height = 1 /\ out.stops = {2, 3}
    /\ ~Last(out.log).ret
    /\ Cardinality({i \in DOMAIN out.log : IsExpand(out.log[i])}) = 2
    /\ \E i \in DOMAIN out.log :
          /\ IsAlgo(out.log[i]) /\ ~out.log[i].item
          /\ out.log[i].dist > Last(out.log).dist

\* the number of nodes of the tree below and including r
RECURSIVE NodesBelow(_, _)
RECURSIVE NodesSum(_, _, _)
NodesSum(r, height, i) ==
    IF i < r.data.count
    THEN NodesBelow(r.data.rects[i], height - 1) + NodesSum(r, height, i + 1)
    ELSE 0

NodesBelow(r, height) == IF height = 0 THEN 1 ELSE 1 + NodesSum(r, height, 0)

NodeCount(t) == IF t.root.data = Nil THEN 0 ELSE NodesBelow(t.root, t.height)

CountOf(log, Is(_)) == Cardinality({i \in DOMAIN log : Is(log[i])})

IsNilCall(e) == IsChildren(e) /\ e.parent = Nil

Called == out.op = "Nearby"

Returned == Called /\ out.pc = "return"

\* what a call still has to do: the nodes not yet expanded and the items
\* not yet passed to iter, and within one of them the position in the loop
Rank(t, o) ==
    3 * (NodeCount(t) + TreeLen(t) - CountOf(o.st.log, IsExpand) - o.st.iters)
    + (CASE o.pc = "gather" -> 2 [] o.pc = "pop" -> 1 [] o.pc = "return" -> 0)

(***************************************************************************)
\* every loop pass of a call that has not returned lowers the rank, which
\* is never negative
RankFalls ==
    Called =>
        /\ Rank(tr, out) >= 0
        /\ ~Returned => Rank(tr, nearbyPass(tr, out)) < Rank(tr, out)

\* one Children call for nil plus one per tree node, and the heap is empty
ReturnedClean ==
    Returned =>
        /\ CountOf(out.st.log, IsNilCall) = 1
        /\ CountOf(out.st.log, IsChildren) = 1 + NodeCount(tr)
        /\ out.st.q = <<>>
        /\ CountOf(out.st.log, IsAlgo)
             = CountOf(out.st.log, IsIter) + CountOf(out.st.log, IsExpand)

(***************************************************************************)
(* C34: on every reachable tree and with iter always returning true,       *)
(* Nearby terminates: every loop pass of a call that has not returned      *)
(* lowers a rank that is never negative, and under the fairness of the     *)
(* passes a call that was made returns; when the call has returned it has  *)
(* made exactly one Children call for nil plus one per tree node, and the  *)
(* heap is empty.                                                          *)
(***************************************************************************)
C34_NearbyTerminates ==
    /\ []RankFalls
    /\ []ReturnedClean
    /\ []((Called /\ FairCall) => <>Returned)

\* a Nearby over the tree of height 2 has returned after expanding the
\* root, the two nodes below it and their leaves
C34_Witness ==
    /\ Returned /\ tr.height = 2 /\ NodeCount(tr) > 3
    /\ CountOf(out.st.log, IsChildren) = 1 + NodeCount(tr)
    /\ out.st.iters = TreeLen(tr)

ReadOps == {"Search", "Scan", "Len", "Bounds", "Children", "Nearby"}

(***************************************************************************)
(* C35: Search, Scan, Len, Bounds, Children and Nearby are read-only: they *)
(* leave Len, the height, every node's entries and every box unchanged,    *)
(* whether they run to completion or are stopped early by the visitor.     *)
(***************************************************************************)
C35_ReadOnly ==
    [][out'.op \in ReadOps =>
          /\ TreeLen(tr') = TreeLen(tr)
          /\ tr'.height = tr.height
          /\ tr'.root = tr.root
          /\ Stored(tr') = Stored(tr)]_vars

\* a Scan of a tree of height 1 that the visitor stopped at the second
\* item: the tree still holds every item loaded
C35_Witness ==
    /\ out.op = "Scan" /\ out.stops = {2, 3} /\ Len(out.log) = 2
    /\ ~Last(out.log).ret
    /\ tr.height = 1 /\ TreeLen(tr) = plan.n
    /\ BagOfSeq(Stored(tr)) = live

\* the bag b is the bag a less one of its elements
OneLess(a, b) == \E e \in BagToSet(a) : b (+) SetToBag({e}) = a

(***************************************************************************)
(* C36: the pending reinsertion list is empty whenever no Delete is in     *)
(* progress: every item flattened into it during a Delete is reinserted    *)
(* before that Delete returns, so a Delete that removes an item changes    *)
(* Len by exactly -1 and leaves every other stored item stored.            *)
(***************************************************************************)
C36_ReinsertRestored ==
    [][/\ tr.reinsert = <<>> /\ tr'.reinsert = <<>>
       /\ TreeLen(tr') = Len(Stored(tr'))
       /\ out'.op = "Delete" =>
            \/ tr' = tr
            \/ /\ TreeLen(tr') = TreeLen(tr) - 1
               /\ OneLess(BagOfSeq(Stored(tr)), BagOfSeq(Stored(tr')))]_vars

\* a Delete that flattened a leaf of several items and reinserted them
C36_Witness ==
    /\ out.op = "Delete" /\ out.flat >= 2
    /\ tr.reinsert = <<>>
    /\ TreeLen(tr) = plan.n - ops /\ TreeLen(tr) > minEntries

====
